---- MODULE Spec2Model ----
(***************************************************************************)
(* fbbe: the derived-state engine of the block explorer.                   *)
(*                                                                         *)
(* The node is the environment: a fixed tree of blocks, of which one is    *)
(* the tip of the best chain, and a mempool.  The explorer's tasks (the    *)
(* bootstrap, the tip tracker, the mempool engine, the raw-tx subscriber   *)
(* and the requests) act on the shared state of src/state.rs.              *)
(***************************************************************************)
EXTENDS Integers, Sequences, FiniteSets, TLC

(***************************************************************************)
(* Bounds of the model                                                     *)
(***************************************************************************)
\* heights of the block tree are 0..MaxHeight
MaxHeight == 2
\* the byte budget of the tx-bytes cache (--tx-cache-byte-size), scaled
TxCacheByteSize == 3
\* the entry budget of the tx->block cache (--txid-blockhash-len), scaled
TxidBlockhashLen == 1
\* the txids that can enter the mempool are 11..(10 + MaxMempoolTxs)
MaxMempoolTxs == 3

(***************************************************************************)
(* Program constants                                                       *)
(***************************************************************************)
\* reserve() grows the height vector to height + 1000
ReserveChunk == 1000
\* update_blocks_in_last_hour looks at the last 6 blocks
LastBlocks == 6
\* the maximum weight of a block, the limit of the block template
MaxBlockWeight == 4000000

(***************************************************************************)
(* The node: blocks are <<branch, height>>, all_zeros is the null id       *)
(***************************************************************************)
AllZeros == <<0, 0>>

Genesis == <<1, 0>>

\* two competing branches: branch 1 starts at genesis, branch 2 leaves it
\* after genesis
Branches == {1, 2}

\* the last height that branch b shares with branch 1
ForkHeight(b) == IF b = 1 THEN 0 - 1 ELSE 0

Blocks == {blk \in Branches \X (0..MaxHeight) : blk[2] > ForkHeight(blk[1])}

HeightOf(blk) == blk[2]

\* header.prev_blockhash of a block
PrevBlockhash(blk) == IF blk[2] = 0 THEN AllZeros ELSE IF blk[2] = ForkHeight(blk[1]) + 1 THEN <<1, blk[2] - 1>> ELSE <<blk[1], blk[2] - 1>>

\* header.time of a block
TimeOf(blk) == 10 * blk[2] + blk[1]

RECURSIVE AncestorAt(_, _)
\* the block at height h of the chain that ends in blk (h <= height of blk)
AncestorAt(blk, h) == IF HeightOf(blk) = h THEN blk ELSE AncestorAt(PrevBlockhash(blk), h)

\* the blocks of the chain that ends in blk
ChainOf(blk) == {AncestorAt(blk, h) : h \in 0..HeightOf(blk)}

\* the coinbase transaction of a block
Coinbase(blk) == 100 + 10 * blk[1] + blk[2]

\* block.txdata: the block <<1, 1>> confirms the transactions 1 and 2
Txdata(blk) == IF blk = <<1, 1>> THEN <<Coinbase(blk), 1, 2>> ELSE <<Coinbase(blk)>>

\* the txids that can enter the node's mempool
MempoolTxids == 11..(10 + MaxMempoolTxs)

\* length in bytes of the serialized transaction
TxLen(txid) == IF txid % 2 = 1 \/ txid \in MempoolTxids THEN 3 ELSE 2

VARIABLES
    \* ---- the node ----
    node_tip,             \* best block of the node
    node_size_on_disk,    \* size_on_disk reported by chaininfo
    node_txids,           \* the transactions that can enter the node's mempool
    node_tips,            \* the blocks that can become the node's best block
    \* ---- SharedState ----
    chain_info,           \* Mutex<ChainInfo>
    txs,                  \* Mutex<SliceCache<Txid>>: <<txid, len>> in insertion order
    txs_full,             \* SliceCache::full()
    tx_in_block,          \* Mutex<LruCache<TruncTxid, BlockHash>>: most recent first
    hash_to_height_time,  \* Mutex<FxHashMap<BlockHash, HeightTime>>
    height_to_hash,       \* Mutex<Vec<BlockHash>>: entries at 0..MaxHeight
    height_to_hash_len,   \* length of the vector
    minutes_since_block,  \* Mutex<Option<String>>: TRUE when Some
    \* ---- bootstrap_state ----
    boot_pc,              \* "headers", "blocks", "done"
    boot_current,         \* current of the block phase
    \* ---- update_chain_info ----
    tip_pc,               \* "minutes", "sleep", "walk", "publish", "dead", "deadlock"
    current,              \* last observed ChainInfo
    last_tip,             \* ChainInfo of the poll
    last_height,
    last_block_hash,
    \* ---- history of the current backward walk ----
    walked,               \* <<hash, height>> of the blocks given to update_cache
    walk_from,            \* `current` when the walk started
    walk_cache,           \* DOMAIN hash_to_height_time when the walk started
    \* ---- the node's mempool ----
    node_mempool,         \* txids of getrawmempool
    \* ---- SharedState, written by update_mempool_details ----
    mempool_spending,     \* Mutex<FxHashMap<OutPoint, SpendPoint>>
    mempool_fees,         \* Mutex<BlockTemplate>; an Option is <<>> or <<x>>
    \* ---- update_mempool_details ----
    mp_pc,                \* "content", "iter", "template"
    rates,                \* BTreeSet<TxidWeightFeeCompact>
    mp_mempool,           \* the `mempool` of this cycle's poll
    mp_todo,              \* the txids the for loop has still to visit
    mp_fetched,           \* txids of the mempool whose round ended with every fetch answered
    \* ---- history of mempool_fees ----
    contents_ahead,       \* the contents set is of a later cycle than the projection
    \* ---- the persistent address index ----
    db_open,              \* Option<Arc<Database>>: TRUE when Some
    funding,              \* FUNDING_CF: <<script hash, height>>
    spending,             \* SPENDING_CF: <<outpoint key, height>>
    indexed,              \* BLOCK_HASH_CF: the indexed blocks
    \* ---- index_addresses ----
    idx_pc,               \* "off", "start", "loop", "fetch", "done"
    idx_indexed_block_hash, \* the copy of the indexed blocks taken at the start
    idx_height,           \* height of the for loop
    idx_block_hash,       \* block_hash of the round
    idx_spawned,          \* the index_res of the spawned writes that have not run
    \* ---- inner_main ----
    fbbe_network,         \* network(): the network of the arguments
    node_chain,           \* chain_info.chain of the node
    addr_index_path,      \* args.addr_index_path is Some
    txid_blockhash_len,   \* args.txid_blockhash_len(), the capacity of tx_in_block
    main_pc,              \* "chaininfo", "db", "network", "state", "spawn", "serve", "exit"
    main_error,           \* the Err that inner_main returned, "" when none
    main_started,         \* what inner_main has created or started
    \* ---- the block page ----
    page_req,             \* the request of a page: its block and what it asks for
    page_res,             \* what the page function returned
    \* ---- the tasks and the shared-state mutexes ----
    task_op,              \* the operation each task runs, "idle" when none
    task_pc,              \* the step of the operation the task is at
    task_held,            \* the mutex guards the task holds, in the order it took them
    \* ---- preload_prevouts_inner ----
    pre_pc,               \* "idle" or "fetch" for each caller
    pre_needed,           \* the needed txids whose request has not started
    pre_in_flight,        \* the txids of the caller's requests that are in flight
    pre_got,              \* got_txs: the answers, in the order of their completion
    \* ---- bootstrap_state, the header phase batch by batch ----
    hdr_pc,               \* "off", "headers", "record", "done", "failed"
    hdr_tip,              \* the height of the tip of the node's chain
    hdr_i,                \* i of the for loop
    hdr_hash,             \* hash: the start of the next request
    hdr_map,              \* the local hash_to_height_time
    hdr_vec,              \* the height map after add_height_hash
    hdr_batches           \* the answers of call_many: their i and their length

nodeVars == <<node_tip, node_size_on_disk, node_txids, node_tips>>

cacheVars == <<txs, txs_full, tx_in_block>>

chainVars == <<chain_info, hash_to_height_time, height_to_hash, height_to_hash_len, minutes_since_block>>

bootVars == <<boot_pc, boot_current>>

tipVars == <<tip_pc, current, last_tip, last_height, last_block_hash, walked, walk_from, walk_cache>>

mempoolVars == <<node_mempool, mempool_spending, mempool_fees, mp_pc, rates, mp_mempool, mp_todo, mp_fetched, contents_ahead>>

dbVars == <<db_open, funding, spending, indexed>>

idxVars == <<idx_pc, idx_indexed_block_hash, idx_height, idx_block_hash, idx_spawned>>

indexVars == <<dbVars, idxVars>>

mainVars == <<fbbe_network, node_chain, addr_index_path, txid_blockhash_len, main_pc, main_error, main_started>>

pageVars == <<page_req, page_res>>

taskVars == <<task_op, task_pc, task_held>>

preVars == <<pre_pc, pre_needed, pre_in_flight, pre_got>>

hdrVars == <<hdr_pc, hdr_tip, hdr_i, hdr_hash, hdr_map, hdr_vec, hdr_batches>>

concVars == <<taskVars, preVars, hdrVars>>

frontVars == <<mainVars, pageVars, concVars>>

vars == <<nodeVars, cacheVars, chainVars, bootVars, tipVars, mempoolVars, indexVars, frontVars>>

(***************************************************************************)
(* rpc::chaininfo::call                                                    *)
(***************************************************************************)
ChainInfo(tip, size) == [blocks |-> HeightOf(tip), best_block_hash |-> tip, size_on_disk |-> size]

NodeChainInfo == ChainInfo(node_tip, node_size_on_disk)

(***************************************************************************)
(* SliceCache (bitcoin_slices): a byte-bounded cache, oldest evicted first *)
(***************************************************************************)
RECURSIVE SumLen(_)
SumLen(cache) == IF cache = <<>> THEN 0 ELSE Head(cache)[2] + SumLen(Tail(cache))

CacheKeys(cache) == {cache[i][1] : i \in 1..Len(cache)}

RECURSIVE EvictUntilFits(_, _, _)
EvictUntilFits(cache, len, size) == IF SumLen(cache) + len <= size THEN cache ELSE EvictUntilFits(Tail(cache), len, size)

\* SliceCache::insert: an item larger than the cache is refused, a present
\* key is left alone, older entries are evicted until the new one fits
SliceCacheInsert(cache, txid, len, size) ==
    IF len > size \/ txid \in CacheKeys(cache) THEN cache
    ELSE Append(EvictUntilFits(cache, len, size), <<txid, len>>)

\* the cache is full from the first insert that had to evict
SliceCacheFull(full, cache, txid, len, size) ==
    full \/ (len <= size /\ txid \notin CacheKeys(cache) /\ SumLen(cache) + len > size)

\* a cache created with twice the budget
TxsByteSize_Double == TxCacheByteSize + TxCacheByteSize

\* SharedState::new: the cache is created with args.tx_cache_byte_size()
TxsByteSize == TxCacheByteSize

TxsInsert(cache, txid) == SliceCacheInsert(cache, txid, TxLen(txid), TxsByteSize)

TxsFull(full, cache, txid) == SliceCacheFull(full, cache, txid, TxLen(txid), TxsByteSize)

(***************************************************************************)
(* LruCache<TruncTxid, BlockHash>                                          *)
(***************************************************************************)
\* TruncTxid::from: the first 8 bytes of the txid; here the txid modulo 1000
TruncTxid(txid) == txid % 1000

RECURSIVE SeqRemoveKey(_, _)
SeqRemoveKey(s, k) == IF s = <<>> THEN <<>> ELSE IF Head(s)[1] = k THEN SeqRemoveKey(Tail(s), k) ELSE <<Head(s)>> \o SeqRemoveKey(Tail(s), k)

\* LruCache::put / push: the key becomes the most recent one, the least
\* recent entry leaves when the capacity is exceeded
LruPut(lru, k, v, cap) ==
    LET s == <<<<k, v>>>> \o SeqRemoveKey(lru, k)
    IN  IF Len(s) > cap THEN SubSeq(s, 1, cap) ELSE s

(***************************************************************************)
(* reserve and SharedState::update_cache                                   *)
(***************************************************************************)
\* a reserve that grows the vector at every call
Reserve_Grow(len, height) == len + ReserveChunk

\* reserve(): grow the vector when it does not reach `height`
Reserve(len, height) == IF len <= height THEN height + ReserveChunk ELSE len

RECURSIVE InsertAllTxs(_, _)
\* the txs of the loop of update_cache, in order, into the bytes cache
InsertAllTxs(cache, txids) == IF txids = <<>> THEN cache ELSE InsertAllTxs(TxsInsert(cache, Head(txids)), Tail(txids))

RECURSIVE FullAfterTxs(_, _, _)
FullAfterTxs(full, cache, txids) == IF txids = <<>> THEN full ELSE FullAfterTxs(TxsFull(full, cache, Head(txids)), TxsInsert(cache, Head(txids)), Tail(txids))

RECURSIVE PutAllTxs(_, _, _)
\* the txs of the loop of update_cache, in order, into the tx->block cache
PutAllTxs(lru, txids, block_hash) == IF txids = <<>> THEN lru ELSE PutAllTxs(LruPut(lru, TruncTxid(Head(txids)), block_hash, txid_blockhash_len), Tail(txids), block_hash)

\* an update_cache that leaves the (id -> height,time) map alone
UpdateCacheHashToHeightTime_Skip(map, block, height) == map

\* the (id -> height,time) map after update_cache(block, Some(height))
UpdateCacheHashToHeightTime(map, block, height) == [b \in DOMAIN map \cup {block} |-> IF b = block THEN [height |-> height, time |-> TimeOf(block)] ELSE map[b]]

\* update_cache that does not write the height vector
UpdateCacheHeightToHash_Skip(vec, block, height) == vec

\* the height vector after update_cache(block, Some(height))
UpdateCacheHeightToHash(vec, block, height) == [vec EXCEPT ![height] = block]

\* update_cache(block, height); has_height is FALSE for height = None
UpdateCache(block, has_height, height) ==
    /\ txs' = InsertAllTxs(txs, Txdata(block))
    /\ txs_full' = FullAfterTxs(txs_full, txs, Txdata(block))
    /\ tx_in_block' = PutAllTxs(tx_in_block, Txdata(block), block)
    /\ IF has_height
       THEN /\ hash_to_height_time' = UpdateCacheHashToHeightTime(hash_to_height_time, block, height)
            /\ height_to_hash_len' = Reserve(height_to_hash_len, height)
            /\ height_to_hash' = UpdateCacheHeightToHash(height_to_hash, block, height)
       ELSE UNCHANGED <<hash_to_height_time, height_to_hash, height_to_hash_len>>

(***************************************************************************)
(* threads/index_addresses.rs: the persistent address index                *)
(***************************************************************************)
OutPoint(txid, vout) == [txid |-> txid, vout |-> vout]

\* the u64 of a small number
U64(n) == <<0, 0, n \div 65536, n % 65536>>

RECURSIVE AddLimbs(_, _, _)
\* the limbs of a + b + carry, from the least significant limb; the carry
\* out of the most significant limb is lost
AddLimbs(a, b, carry) ==
    IF a = <<>> THEN <<>>
    ELSE Append(AddLimbs(SubSeq(a, 1, Len(a) - 1), SubSeq(b, 1, Len(b) - 1), (a[Len(a)] + b[Len(b)] + carry) \div 65536), (a[Len(a)] + b[Len(b)] + carry) % 65536)

\* a + b of u64, wrapping
U64Add(a, b) == AddLimbs(a, b, 0)

\* OutPoint::null(), the input of a coinbase: the txid of zeros and the vout
\* u32::MAX, written 0 - 1
NullOutPoint == OutPoint(0, 0 - 1)

\* tx.input of the transactions of the blocks: transaction 1 spends the
\* coinbase of genesis, transaction 2 the output 1 of transaction 1
BlockTxInput(txid) ==
    IF txid = 1 THEN {OutPoint(Coinbase(Genesis), 0)}
    ELSE IF txid = 2 THEN {OutPoint(1, 1)}
    ELSE {NullOutPoint}

\* the script_pubkey of the outputs of the transactions of the blocks
BlockTxOutputScripts(txid) == IF txid = 1 THEN {1, 2} ELSE IF txid = 2 THEN {2, 3} ELSE {txid}

\* script_hash: FxHasher64 of the script, a hash that is not injective
ScriptHash(script) == script % 100

\* index_block(block, height)
IndexBlock(block, height) ==
    [block_hash |-> block,
     height |-> height,
     funding_sh |-> {ScriptHash(s) : s \in UNION {BlockTxOutputScripts(Txdata(block)[i]) : i \in 1..Len(Txdata(block))}},
     spending_sh |-> UNION {BlockTxInput(Txdata(block)[i]) : i \in 1..Len(Txdata(block))}]

\* outpoint_hash: the first 8 bytes of the txid as a u64, here the most
\* significant limb
OutpointHash(out_point) == <<TruncTxid(out_point.txid), 0, 0, 0>>

\* out_point.vout as u64
VoutAsU64(vout) == IF vout = 0 - 1 THEN <<0, 0, 65535, 65535>> ELSE U64(vout)

\* outpoint_to_key: outpoint_hash plus the vout, 8 bytes
OutpointToKey(out_point) == U64Add(OutpointHash(out_point), VoutAsU64(out_point.vout))

\* a batch without the presence record of the block
BatchPutBlockHash_Skip(keyspace, block_hash) == keyspace

\* batch.put_cf(self.block_hash_cf(), index_res.block_hash, [])
BatchPutBlockHash(keyspace, block_hash) == keyspace \cup {block_hash}

\* the three keyspaces after write_hashes(index_res): one atomic batch
WriteBatch(db, index_res) ==
    [funding |-> db.funding \cup {<<sh, index_res.height>> : sh \in index_res.funding_sh},
     spending |-> db.spending \cup {<<OutpointToKey(o), index_res.height>> : o \in index_res.spending_sh},
     indexed |-> BatchPutBlockHash(db.indexed, index_res.block_hash)]

\* the three keyspaces as they are
Db == [funding |-> funding, spending |-> spending, indexed |-> indexed]

\* Database::write_hashes(index_res); self.db.write(batch) that fails
\* writes nothing
WriteHashes(index_res, ok) ==
    IF ok
    THEN /\ funding' = WriteBatch(Db, index_res).funding
         /\ spending' = WriteBatch(Db, index_res).spending
         /\ indexed' = WriteBatch(Db, index_res).indexed
    ELSE UNCHANGED <<funding, spending, indexed>>

\* the tasks that use the shared state at the same time: a request of the
\* server, update_chain_info and the mempool engine
Tasks == {"request", "tip_tracker", "mempool_engine"}

\* the callers of preload_prevouts_inner that can run at the same time: two
\* page renders (route.rs) and the mempool engine (update_mempool_info.rs)
Callers == {"page1", "page2", "mempool_engine"}

\* no task is inside an operation and no guard is held; no preload runs
NoTaskRuns ==
    /\ task_op = [t \in Tasks |-> "idle"]
    /\ task_pc = [t \in Tasks |-> 0]
    /\ task_held = [t \in Tasks |-> <<>>]
    /\ pre_pc = [c \in Callers |-> "idle"]
    /\ pre_needed = [c \in Callers |-> <<>>]
    /\ pre_in_flight = [c \in Callers |-> {}]
    /\ pre_got = [c \in Callers |-> <<>>]
    /\ hdr_pc = "off"
    /\ hdr_tip = 0
    /\ hdr_i = 0
    /\ hdr_hash = Genesis
    /\ hdr_map = <<>>
    /\ hdr_vec = <<>>
    /\ hdr_batches = <<>>

\* inner_main has created the shared state, spawned the tasks and serves,
\* on the network of the node; db is TRUE with an address index, len is
\* the configured capacity of the tx->block cache
StartedWith(db, len) ==
    /\ fbbe_network = "regtest"
    /\ node_chain = "regtest"
    /\ addr_index_path = db
    /\ txid_blockhash_len = len
    /\ main_pc = "serve"
    /\ main_error = ""
    /\ main_started = (IF db THEN {"db"} ELSE {}) \cup {"shared_state", "bootstrap", "tasks", "server"}

Started(db) == StartedWith(db, TxidBlockhashLen)

(***************************************************************************)
(* Init: the state after SharedState::new                                  *)
(***************************************************************************)
SharedStateNew ==
    /\ node_tip \in Blocks
    /\ node_size_on_disk = 0
    /\ node_txids = MempoolTxids
    /\ node_tips = Blocks
    /\ chain_info = NodeChainInfo
    /\ txs = <<>>
    /\ txs_full = FALSE
    /\ tx_in_block = <<>>
    /\ hash_to_height_time = [b \in {} |-> 0]
    /\ height_to_hash = [h \in 0..MaxHeight |-> AllZeros]
    /\ height_to_hash_len = 0
    /\ minutes_since_block = FALSE
    /\ boot_pc = "headers"
    /\ boot_current = AllZeros
    /\ tip_pc = "minutes"
    /\ current = NodeChainInfo
    /\ last_tip = NodeChainInfo
    /\ last_height = 0
    /\ last_block_hash = AllZeros
    /\ walked = <<>>
    /\ walk_from = NodeChainInfo
    /\ walk_cache = {}
    /\ node_mempool = {}
    /\ mempool_spending = [o \in {} |-> 0]
    /\ mempool_fees = [highest |-> <<>>, last_in_block |-> <<>>, middle_in_block |-> <<>>, transactions |-> <<>>, mempool |-> {}]
    /\ mp_pc = "content"
    /\ rates = {}
    /\ mp_mempool = {}
    /\ mp_todo = {}
    /\ mp_fetched = {}
    /\ contents_ahead = FALSE
    /\ db_open = FALSE
    /\ funding = {}
    /\ spending = {}
    /\ indexed = {}
    /\ idx_pc = "off"
    /\ idx_indexed_block_hash = {}
    /\ idx_height = 0
    /\ idx_block_hash = AllZeros
    /\ idx_spawned = {}
    /\ page_req = <<>>
    /\ page_res = <<>>
    /\ NoTaskRuns

\* the state after SharedState::new in a process that went through
\* inner_main
Init == SharedStateNew /\ Started(FALSE)

(***************************************************************************)
(* The node changes its best chain and its disk size at any time           *)
(***************************************************************************)
NodeSetTip ==
    /\ \E blk \in node_tips \ {node_tip} : node_tip' = blk
    /\ UNCHANGED <<node_size_on_disk, node_txids, node_tips, cacheVars, chainVars, bootVars, tipVars, mempoolVars, frontVars, indexVars>>

NodeSizeOnDisk ==
    /\ node_size_on_disk' = 1 - node_size_on_disk
    /\ UNCHANGED <<node_tip, node_txids, node_tips, cacheVars, chainVars, bootVars, tipVars, mempoolVars, frontVars, indexVars>>

(***************************************************************************)
(* threads/bootstrap_state.rs                                              *)
(***************************************************************************)
\* SharedState::add_height_hash for every header of the chain
AddHeightHashAll(vec, tip) == [h \in DOMAIN vec |-> IF h <= HeightOf(tip) THEN AncestorAt(tip, h) ELSE vec[h]]

\* bootstrap_hash_to_height_time: extend the map with the headers
BootstrapHashToHeightTime(map, tip) == [b \in DOMAIN map \cup ChainOf(tip) |-> IF b \in ChainOf(tip) THEN [height |-> HeightOf(b), time |-> TimeOf(b)] ELSE map[b]]

\* header phase: the headers of the node's best chain from genesis, or an
\* error of the node that ends the task
BootstrapHeadersWith(ok) ==
    /\ boot_pc = "headers"
    /\ IF ok
        THEN /\ height_to_hash' = AddHeightHashAll(height_to_hash, node_tip)
             /\ height_to_hash_len' = Reserve(height_to_hash_len, HeightOf(node_tip))
             /\ hash_to_height_time' = BootstrapHashToHeightTime(hash_to_height_time, node_tip)
             /\ boot_current' = chain_info.best_block_hash
             /\ boot_pc' = "blocks"
        ELSE /\ boot_pc' = "done"
             /\ UNCHANGED <<height_to_hash, height_to_hash_len, hash_to_height_time, boot_current>>
    /\ UNCHANGED <<nodeVars, cacheVars, chain_info, minutes_since_block, tipVars, mempoolVars, frontVars, indexVars>>

\* the node answers or fails
BootstrapHeaders == \E ok \in BOOLEAN : BootstrapHeadersWith(ok)

\* block phase: one block backward from the tip, until the bytes cache is
\* full or genesis is passed
BootstrapBlockWith(ok) ==
    /\ boot_pc = "blocks"
    /\ IF ok
        THEN /\ UpdateCache(boot_current, FALSE, 0)
             /\ boot_current' = IF txs_full' THEN AllZeros ELSE PrevBlockhash(boot_current)
             /\ boot_pc' = IF txs_full' \/ PrevBlockhash(boot_current) = AllZeros THEN "done" ELSE "blocks"
        ELSE /\ boot_pc' = "done"
             /\ boot_current' = AllZeros
             /\ UNCHANGED <<cacheVars, hash_to_height_time, height_to_hash, height_to_hash_len>>
    /\ UNCHANGED <<nodeVars, chain_info, minutes_since_block, tipVars, mempoolVars, frontVars, indexVars>>

\* the node answers or fails
BootstrapBlock == \E ok \in BOOLEAN : BootstrapBlockWith(ok)

(***************************************************************************)
(* threads/update_chain_info.rs                                            *)
(***************************************************************************)
RECURSIVE LastHourScan(_, _, _, _, _)
\* the loop of update_blocks_in_last_hour from index i: "some" when six
\* blocks resolve, "none" at the first that does not, "underflow" when
\* last_tip_height - i leaves usize, a block when height_time misses
LastHourScan(i, tip_height, vec, len, map) ==
    IF i = LastBlocks THEN "some"
    ELSE IF tip_height - i < 0 THEN "underflow"
    ELSE IF tip_height - i >= len THEN "none"
    ELSE IF vec[tip_height - i] = AllZeros THEN "none"
    ELSE IF vec[tip_height - i] \in DOMAIN map THEN LastHourScan(i + 1, tip_height, vec, len, map)
    ELSE "miss"

RECURSIVE LastHourMissed(_, _, _, _)
\* the block on which height_time misses in the loop above
LastHourMissed(i, tip_height, vec, map) ==
    IF vec[tip_height - i] \in DOMAIN map THEN LastHourMissed(i + 1, tip_height, vec, map) ELSE vec[tip_height - i]

\* update_blocks_in_last_hour, then the 2 seconds sleep.  The subtraction
\* last_tip_height - i panics with overflow checks and wraps without (the
\* wrapped index is beyond the vector: None).  height_time on a miss asks
\* the node and then waits for height_to_hash, which this task holds.
UpdateBlocksInLastHour ==
    /\ tip_pc = "minutes"
    /\ boot_pc = "done"
    /\ LET r == LastHourScan(0, current.blocks, height_to_hash, height_to_hash_len, hash_to_height_time)
       IN  CASE r = "some" -> /\ minutes_since_block' = TRUE
                              /\ tip_pc' = "sleep"
                              /\ UNCHANGED hash_to_height_time
             [] r = "none" -> /\ minutes_since_block' = FALSE
                              /\ tip_pc' = "sleep"
                              /\ UNCHANGED hash_to_height_time
             [] r = "underflow" -> /\ \E checks \in BOOLEAN :
                                        IF checks
                                        THEN tip_pc' = "dead" /\ UNCHANGED minutes_since_block
                                        ELSE tip_pc' = "sleep" /\ minutes_since_block' = FALSE
                                   /\ UNCHANGED hash_to_height_time
             [] r = "miss" -> LET blk == LastHourMissed(0, current.blocks, height_to_hash, hash_to_height_time)
                              IN  \E ok \in BOOLEAN :
                                    IF ok /\ blk \in ChainOf(node_tip)
                                    THEN /\ hash_to_height_time' = UpdateCacheHashToHeightTime(hash_to_height_time, blk, HeightOf(blk))
                                         /\ tip_pc' = "deadlock"
                                         /\ UNCHANGED minutes_since_block
                                    ELSE /\ minutes_since_block' = FALSE
                                         /\ tip_pc' = "sleep"
                                         /\ UNCHANGED hash_to_height_time
    /\ walked' = <<>>
    /\ walk_from' = current
    /\ walk_cache' = {}
    /\ UNCHANGED <<nodeVars, cacheVars, chain_info, height_to_hash, height_to_hash_len, bootVars, mempoolVars, frontVars, indexVars>>
    /\ UNCHANGED <<current, last_tip, last_height, last_block_hash>>

\* rpc::chaininfo::call and the comparison with `current`
PollWith(ok) ==
    /\ tip_pc = "sleep"
    /\ IF ok /\ NodeChainInfo # current
        THEN /\ last_tip' = NodeChainInfo
             /\ last_height' = NodeChainInfo.blocks
             /\ last_block_hash' = NodeChainInfo.best_block_hash
             /\ tip_pc' = "walk"
             /\ walked' = <<>>
             /\ walk_from' = current
             /\ walk_cache' = DOMAIN hash_to_height_time
        ELSE /\ tip_pc' = "minutes"
             /\ UNCHANGED <<last_tip, last_height, last_block_hash, walked, walk_from, walk_cache>>
    /\ UNCHANGED <<nodeVars, cacheVars, chainVars, bootVars, current, mempoolVars, frontVars, indexVars>>

\* the node answers or fails
Poll == \E ok \in BOOLEAN : PollWith(ok)

\* a walk that also stops when the predecessor is not cached
PreviousHasCorrectHeight_OrMissing(map, prev_blockhash, height) == prev_blockhash \notin DOMAIN map \/ map[prev_blockhash].height = height - 1

\* the test that ends the backward walk
PreviousHasCorrectHeight(map, prev_blockhash, height) == prev_blockhash \in DOMAIN map /\ map[prev_blockhash].height = height - 1

\* one round of the backward walk: rpc::block::call, update_cache and the
\* test on the predecessor.  An error of the node ends the task (`?`).
\* last_height -= 1 at height 0 panics with overflow checks; without, the
\* next round asks the node for all_zeros and ends on its error.
WalkStepWith(ok) ==
    /\ tip_pc = "walk"
    /\ IF ok /\ last_block_hash \in Blocks
        THEN /\ UpdateCache(last_block_hash, TRUE, last_height)
             /\ IF db_open
                THEN \E written \in BOOLEAN : WriteHashes(IndexBlock(last_block_hash, last_height), written)
                ELSE UNCHANGED <<funding, spending, indexed>>
             /\ walked' = Append(walked, <<last_block_hash, last_height>>)
             /\ IF PreviousHasCorrectHeight(hash_to_height_time', PrevBlockhash(last_block_hash), last_height)
                THEN /\ tip_pc' = "publish"
                     /\ UNCHANGED <<last_block_hash, last_height>>
                ELSE IF last_height = 0
                THEN \E checks \in BOOLEAN :
                        IF checks
                        THEN tip_pc' = "dead" /\ UNCHANGED <<last_block_hash, last_height>>
                        ELSE /\ tip_pc' = "walk"
                             /\ last_block_hash' = PrevBlockhash(last_block_hash)
                             /\ last_height' = 0 - 1
                ELSE /\ tip_pc' = "walk"
                     /\ last_block_hash' = PrevBlockhash(last_block_hash)
                     /\ last_height' = last_height - 1
        ELSE /\ tip_pc' = "dead"
             /\ UNCHANGED <<cacheVars, hash_to_height_time, height_to_hash, height_to_hash_len, walked, last_block_hash, last_height>>
             /\ UNCHANGED <<funding, spending, indexed>>
    /\ UNCHANGED <<nodeVars, chain_info, minutes_since_block, bootVars, current, last_tip, walk_from, walk_cache, mempoolVars, frontVars>>
    /\ UNCHANGED <<db_open, idxVars>>

\* the node answers or fails
WalkStep == \E ok \in BOOLEAN : WalkStepWith(ok)

\* current = last_tip.clone(); *shared_state.chain_info.lock().await = last_tip
Publish ==
    /\ tip_pc = "publish"
    /\ current' = last_tip
    /\ chain_info' = last_tip
    /\ tip_pc' = "minutes"
    /\ last_height' = 0
    /\ last_block_hash' = AllZeros
    /\ UNCHANGED <<nodeVars, cacheVars, hash_to_height_time, height_to_hash, height_to_hash_len, minutes_since_block, bootVars, mempoolVars, frontVars, indexVars>>
    /\ UNCHANGED <<last_tip, walked, walk_from, walk_cache>>

(***************************************************************************)
(* The tip tracker with the bootstrap and the node                         *)
(***************************************************************************)
Next ==
    \/ NodeSetTip
    \/ NodeSizeOnDisk
    \/ BootstrapHeaders
    \/ BootstrapBlock
    \/ UpdateBlocksInLastHour
    \/ Poll
    \/ WalkStep
    \/ Publish

Spec == Init /\ [][Next]_vars

(***************************************************************************)
(* Properties of the tip tracker                                           *)
(***************************************************************************)
\* the tip tracker has just published the tip of a completed backward walk
IngestionCompleted == tip_pc = "minutes" /\ walked # <<>>

\* C1: after the tip tracker completes the ingestion of a new tip, whatever
\* the sequence of tip changes, the height map holds at every height up to
\* the tip the block of the best chain, and no block outside the best chain
\* is referenced by the map.
C1_HeightMapOnBestChain ==
    IngestionCompleted =>
        /\ \A h \in 0..chain_info.blocks : height_to_hash[h] = AncestorAt(chain_info.best_block_hash, h)
        /\ \A h \in 0..MaxHeight : height_to_hash[h] # AllZeros => height_to_hash[h] \in ChainOf(chain_info.best_block_hash)

\* the walk that just completed was for a tip Y that replaced the observed
\* tip X at the same height, with the same predecessor, cached at the start
Reorg1 ==
    /\ walk_from.blocks = last_tip.blocks
    /\ walk_from.blocks > 0
    /\ walk_from.best_block_hash # last_tip.best_block_hash
    /\ PrevBlockhash(walk_from.best_block_hash) = PrevBlockhash(last_tip.best_block_hash)
    /\ PrevBlockhash(last_tip.best_block_hash) \in walk_cache

\* C2: reorg of length 1: when the tip X at height H is replaced by Y at
\* height H with the same, cached, predecessor, then after the cycle the
\* height map holds Y at H, the (id -> height,time) map has Y with height H
\* and the published chain_info reports Y.
C2_ReorgOfLength1 ==
    (IngestionCompleted /\ Reorg1) =>
        /\ height_to_hash[last_tip.blocks] = last_tip.best_block_hash
        /\ height_to_hash_len > last_tip.blocks
        /\ last_tip.best_block_hash \in DOMAIN hash_to_height_time
        /\ hash_to_height_time[last_tip.best_block_hash].height = last_tip.blocks
        /\ chain_info.best_block_hash = last_tip.best_block_hash
        /\ chain_info.blocks = last_tip.blocks

C2_Witness == IngestionCompleted /\ Reorg1 /\ walked = <<<<last_tip.best_block_hash, last_tip.blocks>>>>

\* the blocks of the new branch: on the chain of the new tip and not on the
\* chain of the tip observed before
NewBranch == ChainOf(last_tip.best_block_hash) \ ChainOf(walk_from.best_block_hash)

\* the walk that just completed was for a new branch of k > 1 blocks that
\* replaced the top k blocks; its fork point was cached and none of its
\* blocks was
ReorgK ==
    /\ walk_from.blocks = last_tip.blocks
    /\ Cardinality(NewBranch) > 1
    /\ AncestorAt(last_tip.best_block_hash, last_tip.blocks - Cardinality(NewBranch)) \in walk_cache
    /\ NewBranch \cap walk_cache = {}

\* C3: reorg of length k > 1: the backward walk ingests exactly the k blocks
\* of the new branch, from the new tip downwards, one height at a time, and
\* stops at the first block whose predecessor was cached.
C3_ReorgOfLengthK ==
    (IngestionCompleted /\ ReorgK) =>
        /\ Len(walked) = Cardinality(NewBranch)
        /\ \A i \in 1..Len(walked) : walked[i] = <<AncestorAt(last_tip.best_block_hash, last_tip.blocks - i + 1), last_tip.blocks - i + 1>>
        /\ \A i \in 1..Len(walked) : (PrevBlockhash(walked[i][1]) \in walk_cache) <=> (i = Len(walked))

C3_Witness == IngestionCompleted /\ ReorgK /\ Len(walked) > 1

(***************************************************************************)
(* The transactions of the mempool                                         *)
(***************************************************************************)
\* tx.input: the previous outputs, all of the confirmed transactions 1 and
\* 2; an even txid has two inputs, and the transaction 14 spends the output
\* that 11 spends (one replaces the other)
TxInput(txid) ==
    IF txid = 14 THEN <<OutPoint(1, 11), OutPoint(2, 14)>>
    ELSE IF txid % 2 = 0 THEN <<OutPoint(1, txid), OutPoint(2, txid)>>
    ELSE <<OutPoint(1, txid)>>

(***************************************************************************)
(* u64 and u32: satoshi amounts are four limbs of 16 bits, the most        *)
(* significant first; a u32 is two limbs                                   *)
(***************************************************************************)
RECURSIVE SubLimbs(_, _, _)
\* the limbs of a - b - borrow, from the least significant limb
SubLimbs(a, b, borrow) ==
    IF a = <<>> THEN <<>>
    ELSE Append(SubLimbs(SubSeq(a, 1, Len(a) - 1), SubSeq(b, 1, Len(b) - 1), IF a[Len(a)] - b[Len(b)] - borrow < 0 THEN 1 ELSE 0), (a[Len(a)] - b[Len(b)] - borrow + 65536) % 65536)

\* a - b of u64, wrapping
U64Sub(a, b) == SubLimbs(a, b, 0)

\* a conversion to u32 that keeps the low 32 bits
TryFromU32_Truncating(x) == <<SubSeq(x, 3, 4)>>

\* u32::try_from(x) of a u64, an Option: Some when the high 32 bits are 0
TryFromU32(x) == IF x[1] = 0 /\ x[2] = 0 THEN <<SubSeq(x, 3, 4)>> ELSE <<>>

\* the number of a u32 below 2^31
U32ToInt(x) == x[1] * 65536 + x[2]

\* a transaction that pays a fee of 2^32 satoshi
HighFeeTxid == 10

\* tx_output(prev_tx, vout).value in satoshi, a u64
OutputValue(prevout) ==
    IF prevout.txid = 1
    THEN (IF prevout.vout = 11 THEN U64(9000) ELSE IF prevout.vout % 2 = 0 THEN U64(5000) ELSE U64(6000))
    ELSE (IF prevout.vout = 12 THEN U64(2000) ELSE IF prevout.vout = HighFeeTxid THEN <<0, 1, 0, 0>> ELSE U64(1500))

\* outpoints_and_sum(tx).sum: the sum of the outputs in satoshi, a u64
OutputsSum(txid) == IF txid = 14 THEN U64(9000) ELSE U64(5000)

\* outpoints_and_sum(tx).weight, below the weight of a block
TxWeight(txid) ==
    IF txid \in {11, 12} THEN 2000000
    ELSE IF txid = 14 THEN 500000
    ELSE 1000000

\* no two transactions of a mempool spend the same output
Conflicting(mempool) == \E a, b \in mempool : a # b /\ \E i \in 1..Len(TxInput(a)) : \E j \in 1..Len(TxInput(b)) : TxInput(a)[i] = TxInput(b)[j]

\* the answers of rpc::mempool::content
NodeMempools == {m \in SUBSET node_txids : ~Conflicting(m)}

\* the node serves the bytes of a transaction of its mempool or of its best
\* chain; rpc::tx::call_raw refuses the coinbase of genesis
NodeServesRaw(txid) ==
    /\ txid # Coinbase(Genesis)
    /\ \/ txid \in node_mempool
       \/ \E blk \in ChainOf(node_tip) : \E i \in 1..Len(Txdata(blk)) : Txdata(blk)[i] = txid

(***************************************************************************)
(* WeightFeeCompact and TxidWeightFeeCompact: the order of the rate index  *)
(***************************************************************************)
\* (fee as u64) << 32 in base 256, most significant byte first; fee is a u32
FeeShifted(fee) == <<fee[1] \div 256, fee[1] % 256, fee[2] \div 256, fee[2] % 256, 0, 0, 0, 0>>

RECURSIVE LongDiv(_, _, _)
\* the quotient of a base 256 number by w, digit by digit
LongDiv(digits, w, r) == IF digits = <<>> THEN <<>> ELSE <<(r * 256 + Head(digits)) \div w>> \o LongDiv(Tail(digits), w, (r * 256 + Head(digits)) % w)

\* WeightFeeCompact::rate: ((fee as u64) << 32) / weight as u64
Rate(wf) == LongDiv(FeeShifted(wf.fee), wf.weight, 0)

RECURSIVE CmpDigits(_, _)
\* u64::cmp on the digits: -1, 0 or 1
CmpDigits(a, b) == IF a = <<>> THEN 0 ELSE IF Head(a) < Head(b) THEN 0 - 1 ELSE IF Head(a) > Head(b) THEN 1 ELSE CmpDigits(Tail(a), Tail(b))

CmpInt(a, b) == IF a < b THEN 0 - 1 ELSE IF a > b THEN 1 ELSE 0

\* Ord for WeightFeeCompact: the rate, then the weight
WeightFeeCompactCmp(a, b) == IF CmpDigits(Rate(a), Rate(b)) = 0 THEN CmpInt(a.weight, b.weight) ELSE CmpDigits(Rate(a), Rate(b))

\* Ord for TxidWeightFeeCompact: wf, then the txid
TxidWeightFeeCompactCmp(a, b) == IF WeightFeeCompactCmp(a.wf, b.wf) = 0 THEN CmpInt(a.txid, b.txid) ELSE WeightFeeCompactCmp(a.wf, b.wf)

RECURSIVE IterRev(_)
\* rates.iter().rev(): the elements of the set from the greatest down
IterRev(set) ==
    IF set = {} THEN <<>>
    ELSE LET m == CHOOSE x \in set : \A y \in set : TxidWeightFeeCompactCmp(y, x) <= 0
         IN  <<m>> \o IterRev(set \ {m})

\* rates.iter().nth_back(n)
NthBack(set, n) == IF n < Cardinality(set) THEN <<IterRev(set)[n + 1]>> ELSE <<>>

\* rates.last()
Last(set) == NthBack(set, 0)

(***************************************************************************)
(* SharedState::tx(txid, false) and preload_prevouts_inner                 *)
(***************************************************************************)
\* the bytes cache and its full flag after txs.insert(txid, tx)
CacheInsert(c, txid) == [txs |-> TxsInsert(c.txs, txid), full |-> TxsFull(c.full, c.txs, txid)]

\* tx(txid, false): a hit, or rpc::tx::call_raw and the insert; `fails` are
\* the txids on which the call to the node fails
TxNoBlockHash(c, txid, fails) ==
    IF txid \in CacheKeys(c.txs) THEN [ok |-> TRUE, c |-> c]
    ELSE IF txid \notin fails /\ NodeServesRaw(txid) THEN [ok |-> TRUE, c |-> CacheInsert(c, txid)]
    ELSE [ok |-> FALSE, c |-> c]

RECURSIVE Needed(_, _)
\* the `needed` of preload_prevouts_inner: the txids of the inputs that the
\* cache does not contain (0 is Txid::all_zeros)
Needed(cache, tx_ins) ==
    IF tx_ins = <<>> THEN <<>>
    ELSE IF Head(tx_ins).txid \notin CacheKeys(cache) /\ Head(tx_ins).txid # 0 THEN <<Head(tx_ins).txid>> \o Needed(cache, Tail(tx_ins))
    ELSE Needed(cache, Tail(tx_ins))

Reverse(s) == [i \in 1..Len(s) |-> s[Len(s) + 1 - i]]

RECURSIVE InsertGot(_, _, _)
\* the loop over got_txs: the fetched transactions enter the cache
InsertGot(c, got, fails) ==
    IF got = <<>> THEN c
    ELSE IF Head(got) \notin fails /\ NodeServesRaw(Head(got)) THEN InsertGot(CacheInsert(c, Head(got)), Tail(got), fails)
    ELSE InsertGot(c, Tail(got), fails)

\* preload_prevouts_inner: buffer_unordered yields the answers in the order
\* of their completion (here the order of the requests or its reverse)
PreloadPrevoutsInner(c, tx_ins, fails, reversed) ==
    LET needed == Needed(c.txs, tx_ins)
    IN  InsertGot(c, IF reversed THEN Reverse(needed) ELSE needed, fails)

RECURSIVE SumInputs(_, _, _, _)
\* the loop that sums the inputs: tx(prevout.txid, false) for every input,
\* `continue 'outer` (ok = FALSE) at the first that fails
SumInputs(c, prevouts, fails, sum) ==
    IF prevouts = <<>> THEN [ok |-> TRUE, c |-> c, sum |-> sum]
    ELSE LET r == TxNoBlockHash(c, Head(prevouts).txid, fails)
         IN  IF r.ok THEN SumInputs(r.c, Tail(prevouts), fails, U64Add(sum, OutputValue(Head(prevouts))))
             ELSE [ok |-> FALSE, c |-> r.c, sum |-> sum]

(***************************************************************************)
(* threads/update_mempool_info.rs: update_mempool_details                  *)
(***************************************************************************)
\* rates.retain(|k| mempool.contains(&k.txid))
RatesRetain(set, mempool) == {e \in set : e.txid \in mempool}

\* a retain that keeps every entry
MempoolSpendingRetain_Skip(map, mempool) == map

\* mempool_spending.retain(|_, v| mempool.contains(v.txid()))
MempoolSpendingRetain(map, mempool) == [o \in {p \in DOMAIN map : map[p].txid \in mempool} |-> map[o]]

\* rates_id: the txids of the rate index
RatesId(set) == {e.txid : e \in set}

\* mempool_spending.insert(*prevout, SpendPoint::new(*txid, i)) for the
\* inputs of the transaction, i from 0
MempoolSpendingInsert(map, txid, prevouts) ==
    LET new == {prevouts[i] : i \in 1..Len(prevouts)}
        vin(o) == CHOOSE i \in 1..Len(prevouts) : prevouts[i] = o /\ \A j \in (i + 1)..Len(prevouts) : prevouts[j] # o
    IN  [o \in DOMAIN map \cup new |-> IF o \in new THEN [txid |-> txid, vin |-> vin(o) - 1] ELSE map[o]]

\* the poll of the mempool, then the two retains and rates_id; the answer
\* is the mempool that the node has at this moment
MempoolContent ==
    /\ mp_pc = "content"
    /\ \E ok \in BOOLEAN :
        IF ok
        THEN \E mempool \in NodeMempools :
                /\ node_mempool' = mempool
                /\ rates' = RatesRetain(rates, mempool)
                /\ mempool_spending' = MempoolSpendingRetain(mempool_spending, mempool)
                /\ mp_mempool' = mempool
                /\ mp_todo' = mempool \ RatesId(rates')
                /\ mp_fetched' = mp_fetched \cap mempool
                /\ mp_pc' = "iter"
        ELSE /\ mp_pc' = "template"
             /\ UNCHANGED <<node_mempool, rates, mempool_spending, mp_mempool, mp_todo, mp_fetched>>
    /\ UNCHANGED <<nodeVars, indexVars, frontVars, cacheVars, chainVars, bootVars, tipVars, mempool_fees, contents_ahead>>

\* the txids of the previous outputs
PrevTxids(prevouts) == {prevouts[i].txid : i \in 1..Len(prevouts)}

\* the orders of the answers of a preload, which the engine asks for a
\* transaction of more than one input
OrdersOfPreload(prevouts) == IF Len(prevouts) > 1 THEN BOOLEAN ELSE {FALSE}

\* wf.try_into(): the WeightFeeCompact of a WeightFee, an Option
TryIntoCompact(wf) ==
    IF TryFromU32(wf.weight) = <<>> \/ TryFromU32(wf.fee) = <<>> THEN <<>>
    ELSE <<[weight |-> U32ToInt(TryFromU32(wf.weight)[1]), fee |-> TryFromU32(wf.fee)[1]]>>

\* if let Ok(wfc) = wf.try_into() { rates.insert(..) }
RatesInsert(set, txid, wfc) == IF wfc = <<>> THEN set ELSE set \cup {[wf |-> wfc[1], txid |-> txid]}

\* one round of the for loop over the mempool, for a txid that is not in
\* rates_id.  `fails` are the txids for which the node's calls fail during
\* the round.  The round ends at the failure of tx(txid), at `continue
\* 'outer`, or at its end, where the loop breaks (over_budget) when the
\* cycle took more than a minute.
MempoolTxRound(txid, prevouts, r1, r3, over_budget) ==
    IF ~r1.ok
    THEN /\ mp_todo' = mp_todo \ {txid}
         /\ UNCHANGED <<txs, txs_full, mempool_spending, rates, mp_fetched>>
    ELSE /\ mempool_spending' = MempoolSpendingInsert(mempool_spending, txid, prevouts)
         /\ txs' = r3.c.txs
         /\ txs_full' = r3.c.full
         /\ rates' = IF r3.ok THEN RatesInsert(rates, txid, TryIntoCompact([weight |-> U64(TxWeight(txid)), fee |-> U64Sub(r3.sum, OutputsSum(txid))])) ELSE rates
         /\ mp_fetched' = IF r3.ok THEN mp_fetched \cup {txid} ELSE mp_fetched
         /\ mp_todo' = IF r3.ok /\ over_budget THEN {} ELSE mp_todo \ {txid}

\* the cache after the preload, which the engine asks for a transaction of
\* more than one input
MempoolPreload(c, prevouts, fails, reversed) == IF Len(prevouts) > 1 THEN PreloadPrevoutsInner(c, prevouts, fails, reversed) ELSE c

MempoolTx ==
    /\ mp_pc = "iter"
    /\ \E txid \in mp_todo : \E fails \in SUBSET ({txid} \cup PrevTxids(TxInput(txid))) : \E over_budget \in BOOLEAN : \E reversed \in OrdersOfPreload(TxInput(txid)) :
        /\ txid \in CacheKeys(txs) => txid \notin fails
        /\ LET r1 == TxNoBlockHash([txs |-> txs, full |-> txs_full], txid, fails)
           IN  MempoolTxRound(txid, TxInput(txid), r1, SumInputs(MempoolPreload(r1.c, TxInput(txid), fails, reversed), TxInput(txid), fails, U64(0)), over_budget)
    /\ UNCHANGED <<nodeVars, indexVars, frontVars, tx_in_block, chainVars, bootVars, tipVars, node_mempool, mempool_fees, mp_pc, mp_mempool, contents_ahead>>

\* after the loop: mempool_fees.mempool = mempool, under the lock
MempoolPublishContents ==
    /\ mp_pc = "iter"
    /\ mp_todo = {}
    /\ mempool_fees' = [mempool_fees EXCEPT !.mempool = mp_mempool]
    /\ contents_ahead' = TRUE
    /\ mp_mempool' = {}
    /\ mp_pc' = "template"
    /\ UNCHANGED <<nodeVars, indexVars, frontVars, cacheVars, chainVars, bootVars, tipVars, node_mempool, mempool_spending, rates, mp_todo, mp_fetched>>

\* a running sum that forgets the weight of the element
SumAfter_NoAdd(sum, e) == sum

\* sum += Weight::from_wu(e.wf.weight as u64)
SumAfter(sum, e) == sum + e.wf.weight

\* a test that also accepts the sum that equals the maximum
FitsInBlock_Inclusive(sum) == sum <= MaxBlockWeight

\* sum < max
FitsInBlock(sum) == sum < MaxBlockWeight

RECURSIVE TakeWhileCount(_, _, _)
\* the number of elements that the take_while lets through, from index i
\* (from 1) with the running sum `sum`
TakeWhileCount(desc, i, sum) ==
    IF i > Len(desc) THEN 0
    ELSE IF FitsInBlock(SumAfter(sum, desc[i])) THEN 1 + TakeWhileCount(desc, i + 1, SumAfter(sum, desc[i]))
    ELSE 0

\* block_template_last: the greatest index (from 0) that passed, an Option
BlockTemplateLast(set) == IF TakeWhileCount(IterRev(set), 1, 0) = 0 THEN <<>> ELSE <<TakeWhileCount(IterRev(set), 1, 0) - 1>>

\* a middle that rounds upwards
MiddleIndex_Upper(n) == (n + 1) \div 2

\* the argument of nth_back for middle_in_block: n / 2
MiddleIndex(n) == n \div 2

\* the projection of the block template and its publication, then the
\* sleep of 10 seconds
MempoolTemplate ==
    /\ mp_pc = "template"
    /\ LET block_template_last == BlockTemplateLast(rates)
       IN  mempool_fees' = IF block_template_last = <<>>
                           THEN [mempool_fees EXCEPT !.highest = Last(rates)]
                           ELSE [mempool_fees EXCEPT !.highest = Last(rates),
                                                     !.last_in_block = NthBack(rates, block_template_last[1]),
                                                     !.middle_in_block = NthBack(rates, MiddleIndex(block_template_last[1])),
                                                     !.transactions = <<block_template_last[1] + 1>>]
    /\ contents_ahead' = FALSE
    /\ mp_pc' = "content"
    /\ UNCHANGED <<nodeVars, indexVars, frontVars, cacheVars, chainVars, bootVars, tipVars, node_mempool, mempool_spending, rates, mp_mempool, mp_todo, mp_fetched>>

(***************************************************************************)
(* The mempool engine with the node, on the chain that confirms the        *)
(* transactions 1 and 2                                                    *)
(***************************************************************************)
\* the engine starts when the bootstrap has ended: here a bootstrap that
\* took the headers and the blocks of the chain of <<1, 1>>
EngineStart(txids, tips, db) ==
    /\ Started(db)
    /\ node_tip = <<1, 1>>
    /\ node_size_on_disk = 0
    /\ node_txids = txids
    /\ node_tips = tips
    /\ chain_info = NodeChainInfo
    /\ txs = InsertAllTxs(<<>>, Txdata(<<1, 1>>))
    /\ txs_full = FullAfterTxs(FALSE, <<>>, Txdata(<<1, 1>>))
    /\ tx_in_block = PutAllTxs(<<>>, Txdata(<<1, 1>>), <<1, 1>>)
    /\ hash_to_height_time = BootstrapHashToHeightTime([b \in {} |-> 0], <<1, 1>>)
    /\ height_to_hash = AddHeightHashAll([h \in 0..MaxHeight |-> AllZeros], <<1, 1>>)
    /\ height_to_hash_len = Reserve(0, 1)
    /\ minutes_since_block = FALSE
    /\ boot_pc = "done"
    /\ boot_current = AllZeros
    /\ tip_pc = "minutes"
    /\ current = NodeChainInfo
    /\ last_tip = NodeChainInfo
    /\ last_height = 0
    /\ last_block_hash = AllZeros
    /\ walked = <<>>
    /\ walk_from = NodeChainInfo
    /\ walk_cache = {}
    /\ node_mempool = {}
    /\ mempool_spending = [o \in {} |-> 0]
    /\ mempool_fees = [highest |-> <<>>, last_in_block |-> <<>>, middle_in_block |-> <<>>, transactions |-> <<>>, mempool |-> {}]
    /\ mp_pc = "content"
    /\ rates = {}
    /\ mp_mempool = {}
    /\ mp_todo = {}
    /\ mp_fetched = {}
    /\ contents_ahead = FALSE
    /\ db_open = db
    /\ funding = {}
    /\ spending = {}
    /\ indexed = {}
    /\ idx_pc = (IF db THEN "start" ELSE "off")
    /\ idx_indexed_block_hash = {}
    /\ idx_height = 0
    /\ idx_block_hash = AllZeros
    /\ idx_spawned = {}
    /\ page_req = <<>>
    /\ page_res = <<>>
    /\ NoTaskRuns

\* the node takes the transactions of MempoolTxids
InitMempool == EngineStart(MempoolTxids, Blocks, FALSE)

NextMempool ==
    \/ MempoolContent
    \/ MempoolTx
    \/ MempoolPublishContents
    \/ MempoolTemplate

SpecMempool == InitMempool /\ [][NextMempool]_vars

(***************************************************************************)
(* Properties of the mempool engine                                        *)
(***************************************************************************)
\* a detail cycle has ended: the engine sleeps before its next poll
CycleEnded == mp_pc = "content"

RECURSIVE PrefixWeight(_, _)
\* the sum of the weights of the first n elements
PrefixWeight(desc, n) == IF n = 0 THEN 0 ELSE desc[n].wf.weight + PrefixWeight(desc, n - 1)

Min(a, b) == IF a < b THEN a ELSE b

\* the published `transactions`, 0 for None
Transactions == IF mempool_fees.transactions = <<>> THEN 0 ELSE mempool_fees.transactions[1]

\* C5: after every detail cycle the sum of the weights of the first
\* `transactions` triples of the rate index, in descending order, is at
\* most 4,000,000.
C5_TemplateWithinBlockWeight ==
    CycleEnded => PrefixWeight(IterRev(rates), Min(Transactions, Cardinality(rates))) <= 4000000

\* a cycle ended with a rate index heavier than a block and a prefix of it
\* selected
C5_Witness ==
    /\ CycleEnded
    /\ PrefixWeight(IterRev(rates), Cardinality(rates)) > 4000000
    /\ Transactions >= 1
    /\ Transactions < Cardinality(rates)

\* the length of the longest prefix of desc whose weight is under the
\* maximum weight of a block
LongestPrefix(desc) == CHOOSE n \in 0..Len(desc) : PrefixWeight(desc, n) < 4000000 /\ \A m \in (n + 1)..Len(desc) : PrefixWeight(desc, m) >= 4000000

\* what C6 says of the published projection, for the descending rate
\* index desc and the length N of its longest prefix
ProjectionIsLongestPrefix(desc, N) ==
    /\ N >= 1
    /\ mempool_fees.transactions = <<N>>
    /\ mempool_fees.highest = <<desc[1]>>
    /\ mempool_fees.last_in_block = <<desc[N]>>
    /\ PrefixWeight(desc, Len(desc)) < 4000000 => (mempool_fees.last_in_block = <<desc[Len(desc)]>> /\ mempool_fees.transactions = <<Len(desc)>>)

ProjectionOf(desc) == ProjectionIsLongestPrefix(desc, LongestPrefix(desc))

C7_MiddleAtHalfOfN ==
    (CycleEnded /\ rates # {}) => mempool_fees.middle_in_block = <<IterRev(rates)[(Transactions \div 2) + 1]>>

\* C7, amended: middle_in_block is the triple at the zero-based index
\* floor((N - 1) / 2) of the selected prefix of N = transactions triples.
C7_MiddleAtHalfOfLast ==
    (CycleEnded /\ rates # {}) => mempool_fees.middle_in_block = <<IterRev(rates)[((Transactions - 1) \div 2) + 1]>>

\* a cycle ended with a selected prefix of even length
C7_Witness == CycleEnded /\ rates # {} /\ Transactions = 2 /\ Cardinality(rates) >= 2

\* C8: at the end of every detail cycle every entry O -> (T, i) of the
\* spending map has T in the published contents set and O as the i-th
\* input of T.
C8_SpendingMapSound ==
    CycleEnded =>
        \A o \in DOMAIN mempool_spending :
            /\ mempool_spending[o].txid \in mempool_fees.mempool
            /\ mempool_spending[o].vin < Len(TxInput(mempool_spending[o].txid))
            /\ TxInput(mempool_spending[o].txid)[mempool_spending[o].vin + 1] = o

\* a cycle ended with the entries of several transactions, one of them of
\* two inputs, and a contents set that some transaction has left
C8_Witness ==
    /\ CycleEnded
    /\ \E o \in DOMAIN mempool_spending : mempool_spending[o].vin = 1
    /\ Cardinality(DOMAIN mempool_spending) >= 3
    /\ \E e \in DOMAIN mempool_spending : mempool_spending[e].txid \notin RatesId(rates)

\* C9: at the end of every detail cycle every input of every transaction of
\* the published contents set is a key of the spending map, also when
\* fetches failed or the budget of one minute cut the cycle.
C9_SpendingMapComplete ==
    CycleEnded =>
        \A txid \in mempool_fees.mempool : \A i \in 1..Len(TxInput(txid)) : TxInput(txid)[i] \in DOMAIN mempool_spending

\* C10: a reader of mempool_fees sees a contents set and a projection of
\* the same cycle: in no state the contents set is of cycle n and the
\* projection of cycle n - 1.
C10_ContentsAndProjectionOfOneCycle == ~contents_ahead

(***************************************************************************)
(* The tasks that insert into the bytes cache                              *)
(***************************************************************************)
\* the txids the node can be asked for
\* a transaction that was in the node's mempool and whose txid has the
\* first 8 bytes of the txid of transaction 1; nothing spends its outputs
CollidingTxid == 1001

AllTxids == MempoolTxids \cup {1, 2, CollidingTxid} \cup {Coinbase(blk) : blk \in Blocks}

\* blockhash of the node's json of a transaction: the block of the best
\* chain that confirms it, an Option
NodeTxBlockHash(txid) ==
    LET confirming == {blk \in ChainOf(node_tip) : \E i \in 1..Len(Txdata(blk)) : Txdata(blk)[i] = txid}
    IN  IF confirming = {} THEN <<>> ELSE <<CHOOSE blk \in confirming : TRUE>>

\* LruCache::get, the value as an Option
LruValue(lru, k) == IF \E i \in 1..Len(lru) : lru[i][1] = k THEN <<lru[CHOOSE i \in 1..Len(lru) : lru[i][1] = k][2]>> ELSE <<>>

\* a get that drops the entry it finds
LruGet_Drop(lru, k) == SeqRemoveKey(lru, k)

\* LruCache::get, the cache after it: the key becomes the most recent one
LruGet(lru, k) == IF LruValue(lru, k) = <<>> THEN lru ELSE <<<<k, LruValue(lru, k)[1]>>>> \o SeqRemoveKey(lru, k)

\* rpc::tx::call_parse_json, the block hash: genesis for the coinbase of
\* genesis, else the answer of the node
CallParseJsonBlockHash(txid) == IF txid = Coinbase(Genesis) THEN <<Genesis>> ELSE NodeTxBlockHash(txid)

\* rpc::tx::call_json_only_hash, the block hash: genesis for the coinbase of
\* genesis, else the answer of the node
CallJsonOnlyHash(txid) == IF txid = Coinbase(Genesis) THEN <<Genesis>> ELSE NodeTxBlockHash(txid)

\* the caches after SharedState::tx(txid, needs_block_hash); ok is FALSE
\* when the call to the node fails.  c is the bytes cache, tx_hit its answer,
\* block_hash the answer of tx_in_block and lru that cache after the get,
\* raw the outcome of the raw fetch.
SharedStateTxCaches(txid, needs_block_hash, ok, c, tx_hit, block_hash, lru, raw) ==
    IF ~needs_block_hash
    THEN /\ txs' = raw.c.txs
         /\ txs_full' = raw.c.full
         /\ UNCHANGED tx_in_block
    ELSE IF tx_hit /\ block_hash # <<>>
    THEN /\ tx_in_block' = lru
         /\ UNCHANGED <<txs, txs_full>>
    ELSE IF tx_hit
    THEN /\ tx_in_block' = IF (txid = Coinbase(Genesis) \/ (ok /\ NodeServesRaw(txid))) /\ CallJsonOnlyHash(txid) # <<>>
                           THEN LruPut(lru, TruncTxid(txid), CallJsonOnlyHash(txid)[1], txid_blockhash_len)
                           ELSE lru
         /\ UNCHANGED <<txs, txs_full>>
    ELSE IF block_hash # <<>>
    THEN /\ txs' = raw.c.txs
         /\ txs_full' = raw.c.full
         /\ tx_in_block' = lru
    ELSE IF txid = Coinbase(Genesis) \/ (ok /\ NodeServesRaw(txid))
    THEN /\ txs' = CacheInsert(c, txid).txs
         /\ txs_full' = CacheInsert(c, txid).full
         /\ tx_in_block' = IF CallParseJsonBlockHash(txid) # <<>>
                           THEN LruPut(lru, TruncTxid(txid), CallParseJsonBlockHash(txid)[1], txid_blockhash_len)
                           ELSE lru
    ELSE UNCHANGED <<txs, txs_full, tx_in_block>>

\* SharedState::tx(txid, needs_block_hash) on the caches as they are
SharedStateTxOf(txid, needs_block_hash, ok) ==
    SharedStateTxCaches(txid, needs_block_hash, ok, [txs |-> txs, full |-> txs_full], txid \in CacheKeys(txs),
                        LruValue(tx_in_block, TruncTxid(txid)), LruGet(tx_in_block, TruncTxid(txid)),
                        TxNoBlockHash([txs |-> txs, full |-> txs_full], txid, IF ok THEN {} ELSE {txid}))

\* SharedState::tx(txid, needs_block_hash) of a request or of a task
SharedStateTx ==
    /\ \E txid \in AllTxids : \E needs_block_hash, ok \in BOOLEAN : SharedStateTxOf(txid, needs_block_hash, ok)
    /\ UNCHANGED <<nodeVars, chainVars, bootVars, tipVars, mempoolVars, frontVars, indexVars>>

\* preload_prevouts(txid, tx) of the page of a mempool transaction
PreloadPrevouts ==
    /\ \E txid \in MempoolTxids : \E fails \in SUBSET PrevTxids(TxInput(txid)) : \E reversed \in OrdersOfPreload(TxInput(txid)) :
        /\ txs' = PreloadPrevoutsInner([txs |-> txs, full |-> txs_full], TxInput(txid), fails, reversed).txs
        /\ txs_full' = PreloadPrevoutsInner([txs |-> txs, full |-> txs_full], TxInput(txid), fails, reversed).full
    /\ UNCHANGED <<nodeVars, tx_in_block, chainVars, bootVars, tipVars, mempoolVars, frontVars, indexVars>>

\* threads/zmq.rs: a raw transaction published by the node enters the
\* cache; the transactions of the mempool reach the cache this way
ZmqRawTx ==
    /\ \E txid \in MempoolTxids \cup {1, 2, CollidingTxid} :
        /\ txs' = CacheInsert([txs |-> txs, full |-> txs_full], txid).txs
        /\ txs_full' = CacheInsert([txs |-> txs, full |-> txs_full], txid).full
    /\ UNCHANGED <<nodeVars, tx_in_block, chainVars, bootVars, tipVars, mempoolVars, frontVars, indexVars>>

\* update_cache(block, None) of a block the node gave
UpdateCacheOfBlock ==
    /\ \E blk \in Blocks : UpdateCache(blk, FALSE, 0)
    /\ UNCHANGED <<nodeVars, chain_info, minutes_since_block, bootVars, tipVars, mempoolVars, frontVars, indexVars>>

NextCache ==
    \/ SharedStateTx
    \/ PreloadPrevouts
    \/ ZmqRawTx
    \/ UpdateCacheOfBlock

\* the tasks that insert, on a node with any best chain
SpecCache == Init /\ [][NextCache]_vars

\* C4: the total of the bytes held by the bytes cache never exceeds the
\* budget tx_cache_byte_size, whatever the inserts the tasks make and their
\* interleaving; an insert that would exceed it evicts older entries first.
C4_CacheWithinByteBudget == SumLen(txs) <= TxCacheByteSize

\* the cache holds as many bytes as its budget after an insert that evicted
C4_Witness == txs_full /\ SumLen(txs) = TxCacheByteSize


(***************************************************************************)
(* The mempool engine with a node that takes a transaction whose fee does  *)
(* not fit in 32 bits                                                      *)
(***************************************************************************)
\* the transactions the node takes: the one of the high fee and the first
\* of MempoolTxids
FeeTxids == {HighFeeTxid} \cup (11..(10 + MaxMempoolTxs - 2))

InitFee == EngineStart(FeeTxids, Blocks, FALSE)

SpecFee == InitFee /\ [][NextMempool]_vars

RECURSIVE SumValues(_)
\* the sum of the values of the outputs that prevouts name, a u64
SumValues(prevouts) == IF prevouts = <<>> THEN U64(0) ELSE U64Add(OutputValue(Head(prevouts)), SumValues(Tail(prevouts)))

\* the fee of a transaction, a u64: its inputs minus its outputs
FeeOf(txid) == U64Sub(SumValues(TxInput(txid)), OutputsSum(txid))

\* the fee and the weight of the transaction are below 2^32
FitsIn32Bits(txid) == FeeOf(txid)[1] = 0 /\ FeeOf(txid)[2] = 0 /\ TxWeight(txid) < 2147483647

\* the triple of the rate index for a transaction whose fee and weight fit
OwnTriple(txid) == [wf |-> [weight |-> TxWeight(txid), fee |-> SubSeq(FeeOf(txid), 3, 4)], txid |-> txid]

\* C11: a transaction of the mempool whose fee or weight does not fit in
\* 32 bits is never in the rate index; every other transaction of the
\* contents set whose data was fetched is in the rate index with its own
\* weight and fee, and the projection of a cycle is the one of these
\* triples.
C11_FeeOverflowSkipsOnlyThatTx ==
    /\ \A e \in rates : FitsIn32Bits(e.txid) /\ e = OwnTriple(e.txid)
    /\ \A txid \in mp_fetched : FitsIn32Bits(txid) => OwnTriple(txid) \in rates
    /\ (CycleEnded /\ rates # {}) => ProjectionIsLongestPrefix(IterRev(rates), LongestPrefix(IterRev(rates)))

\* a cycle ended in which the transaction of the high fee was fetched and
\* left out, and another transaction was fetched and is in the rate index
\* and in the projection
C11_Witness ==
    /\ CycleEnded
    /\ HighFeeTxid \in mp_fetched
    /\ ~FitsIn32Bits(HighFeeTxid)
    /\ HighFeeTxid \notin RatesId(rates)
    /\ \E txid \in mp_fetched \ {HighFeeTxid} : OwnTriple(txid) \in rates
    /\ mempool_fees.mempool = node_mempool
    /\ Transactions >= 1


(***************************************************************************)
(* update_cache applied twice                                              *)
(***************************************************************************)
\* the four structures that update_cache writes, as they are now
Caches == [txs |-> txs, txs_full |-> txs_full, tx_in_block |-> tx_in_block, hash_to_height_time |-> hash_to_height_time, height_to_hash |-> height_to_hash, height_to_hash_len |-> height_to_hash_len]

\* the structures c after update_cache(block, height); has_height is FALSE
\* for height = None
UpdateCacheOf(c, block, has_height, height) ==
    [txs |-> InsertAllTxs(c.txs, Txdata(block)),
     txs_full |-> FullAfterTxs(c.txs_full, c.txs, Txdata(block)),
     tx_in_block |-> PutAllTxs(c.tx_in_block, Txdata(block), block),
     hash_to_height_time |-> IF has_height THEN UpdateCacheHashToHeightTime(c.hash_to_height_time, block, height) ELSE c.hash_to_height_time,
     height_to_hash |-> IF has_height THEN UpdateCacheHeightToHash(c.height_to_hash, block, height) ELSE c.height_to_hash,
     height_to_hash_len |-> IF has_height THEN Reserve(c.height_to_hash_len, height) ELSE c.height_to_hash_len]

\* update_cache(block, height) twice from c gives what once gives
Idempotent(c, block, has_height, height) ==
    UpdateCacheOf(UpdateCacheOf(c, block, has_height, height), block, has_height, height) = UpdateCacheOf(c, block, has_height, height)

HeightToHashGet(vec, len, height) ==
    IF height >= len THEN <<>>
    ELSE IF height > MaxHeight THEN <<AllZeros>>
    ELSE <<vec[height]>>

\* let indexed_block_hash = db.indexed_block_hash()
IndexStart ==
    /\ idx_pc = "start"
    /\ boot_pc = "done"
    /\ idx_indexed_block_hash' = indexed
    /\ idx_height' = 0
    /\ idx_pc' = "loop"
    /\ UNCHANGED <<nodeVars, cacheVars, chainVars, bootVars, tipVars, mempoolVars, frontVars, dbVars, idx_block_hash, idx_spawned>>

\* a round of the for loop up to the call of the node: the height map, then
\* the two checks of the indexed blocks
IndexRound ==
    /\ idx_pc = "loop"
    /\ LET hash == HeightToHashGet(height_to_hash, height_to_hash_len, idx_height)
       IN  IF hash = <<>> \/ hash = <<AllZeros>>
           THEN /\ idx_pc' = "done"
                /\ UNCHANGED <<idx_height, idx_block_hash>>
           ELSE IF hash[1] \in idx_indexed_block_hash \/ hash[1] \in indexed
           THEN /\ idx_height' = idx_height + 1
                /\ UNCHANGED <<idx_pc, idx_block_hash>>
           ELSE /\ idx_block_hash' = hash[1]
                /\ idx_pc' = "fetch"
                /\ UNCHANGED idx_height
    /\ UNCHANGED <<nodeVars, cacheVars, chainVars, bootVars, tipVars, mempoolVars, frontVars, dbVars, idx_indexed_block_hash, idx_spawned>>

\* a loop that gives up the block at the first error
HeightAfterError_Skip(height) == height + 1

\* the height of the for loop after an Err of rpc::block::call: the inner
\* loop sleeps a second and asks again for the same block
HeightAfterError(height) == height

\* rpc::block::call(block_hash): on an error the loop sleeps a second and
\* asks again; on the block, index_block and the spawn of the write
IndexFetch ==
    /\ idx_pc = "fetch"
    /\ \E ok \in BOOLEAN :
        IF ok
        THEN /\ idx_spawned' = idx_spawned \cup {IndexBlock(idx_block_hash, idx_height)}
             /\ idx_height' = idx_height + 1
             /\ idx_block_hash' = AllZeros
             /\ idx_pc' = "loop"
        ELSE /\ idx_height' = HeightAfterError(idx_height)
             /\ UNCHANGED <<idx_spawned, idx_block_hash, idx_pc>>
    /\ UNCHANGED <<nodeVars, cacheVars, chainVars, bootVars, tipVars, mempoolVars, frontVars, dbVars, idx_indexed_block_hash>>

\* tokio::spawn(async move { db.write_hashes(index_res) }): a spawned write
\* runs
IndexSpawnedWrite ==
    /\ \E index_res \in idx_spawned : \E written \in BOOLEAN :
        /\ WriteHashes(index_res, written)
        /\ idx_spawned' = idx_spawned \ {index_res}
    /\ UNCHANGED <<nodeVars, cacheVars, chainVars, bootVars, tipVars, mempoolVars, frontVars, db_open, idx_pc, idx_indexed_block_hash, idx_height, idx_block_hash>>

\* the tasks start when the bootstrap has ended, with an index that is open
\* and empty
\* the two blocks that compete at height 1
TipsAtOne == {blk \in Blocks : HeightOf(blk) = 1}

InitIndex == EngineStart(MempoolTxids, TipsAtOne, TRUE)

NextIndex ==
    \/ NodeSetTip
    \/ UpdateBlocksInLastHour
    \/ Poll
    \/ WalkStep
    \/ Publish
    \/ IndexStart
    \/ IndexRound
    \/ IndexFetch
    \/ IndexSpawnedWrite

\* the tip tracker and the catch-up loop on an open index
SpecIndex == InitIndex /\ [][NextIndex]_vars


(***************************************************************************)
(* The queries of the index: get_spending and output_status                *)
(***************************************************************************)
\* the order of the keys of SPENDING_CF: the 8 bytes of the outpoint key,
\* then the height, big endian
SpendingKeyLessEq(a, b) == CmpDigits(a[1], b[1]) < 0 \/ (a[1] = b[1] /\ a[2] <= b[2])

\* the records at or beyond the seek key, which is the outpoint key alone
FromKeyForward(keyspace, key) == {rec \in keyspace : CmpDigits(rec[1], key) >= 0}

\* Database::get_spending(outpoint): the first record of the iterator from
\* the seek key; panics is the unwrap of the None of an iterator at its
\* end, height the Option returned otherwise
GetSpending(keyspace, out_point) ==
    LET after == FromKeyForward(keyspace, OutpointToKey(out_point))
    IN  IF after = {} THEN [panics |-> TRUE, height |-> <<>>]
        ELSE LET first == CHOOSE rec \in after : \A other \in after : SpendingKeyLessEq(rec, other)
             IN  [panics |-> FALSE, height |-> IF first[1] = OutpointToKey(out_point) THEN <<first[2]>> ELSE <<>>]

\* output_status for one output: the mempool spending map, then the index
OutputStatus(out_point) ==
    IF out_point \in DOMAIN mempool_spending THEN [status |-> "UnconfirmedSpent", height |-> <<>>]
    ELSE IF ~db_open THEN [status |-> "Unknown", height |-> <<>>]
    ELSE IF GetSpending(spending, out_point).panics THEN [status |-> "panic", height |-> <<>>]
    ELSE IF GetSpending(spending, out_point).height = <<>> THEN [status |-> "Unspent", height |-> <<>>]
    ELSE [status |-> "ConfirmedSpent", height |-> GetSpending(spending, out_point).height]

\* the outputs whose status the pages ask
QueriedOutPoints == {OutPoint(txid, vout) : txid \in {1, 2, CollidingTxid}, vout \in 0..1}

\* the result of index_block for a block at its height
IndexResultOf(block) == IndexBlock(block, HeightOf(block))

\* C13: writing again the result of a block that is indexed leaves the
\* funding, spending and indexed-blocks keyspaces unchanged, and the
\* catch-up loop neither fetches nor writes a block whose id is in the
\* indexed-blocks set.
C13_IndexingIdempotentUnderGuard ==
    /\ \A block \in indexed : WriteBatch(Db, IndexResultOf(block)) = Db
    /\ idx_pc = "fetch" => idx_block_hash \notin indexed
    /\ \A index_res \in idx_spawned : index_res.block_hash \notin indexed

\* the first half of C13 alone: a second write of the same result changes
\* no keyspace
WriteAgainChangesNothing == \A block \in indexed : WriteBatch(Db, IndexResultOf(block)) = Db

\* C14: every funding and every spending record at a height h is the one of
\* a block of the indexed-blocks set indexed at h, and every block of the
\* indexed-blocks set has all its funding and spending records: the three
\* are written in one atomic batch.
C14_RecordsWithPresence ==
    /\ \A rec \in funding : \E block \in indexed : rec[2] = HeightOf(block) /\ rec[1] \in IndexResultOf(block).funding_sh
    /\ \A rec \in spending : \E block \in indexed : rec[2] = HeightOf(block) /\ \E o \in IndexResultOf(block).spending_sh : rec[1] = OutpointToKey(o)
    /\ \A block \in indexed : WriteBatch(Db, IndexResultOf(block)).funding = funding /\ WriteBatch(Db, IndexResultOf(block)).spending = spending

\* two blocks of the same height are indexed, by the catch-up loop and by
\* the tip tracker, and a write of the loop is still to run
C14_Witness ==
    /\ \E a, b \in indexed : a # b /\ HeightOf(a) = HeightOf(b)
    /\ Genesis \in indexed
    /\ funding # {}
    /\ spending # {}
    /\ idx_spawned # {}

\* C17: an output is reported confirmed-spent at h only if a block indexed
\* at height h has an input that consumes exactly that outpoint.
C17_SpentOnlyIfConsumed ==
    \A out_point \in QueriedOutPoints :
        OutputStatus(out_point).status = "ConfirmedSpent" =>
            \E block \in indexed : <<HeightOf(block)>> = OutputStatus(out_point).height /\ out_point \in IndexResultOf(block).spending_sh

\* C18: get_spending returns none, without failing, whenever no record at
\* or beyond the seek key has the fingerprint of the outpoint.
C18_NoneWhenNoRecord ==
    \A out_point \in QueriedOutPoints :
        (~\E rec \in FromKeyForward(spending, OutpointToKey(out_point)) : rec[1] = OutpointToKey(out_point)) =>
            GetSpending(spending, out_point) = [panics |-> FALSE, height |-> <<>>]


(***************************************************************************)
(* What SharedState::tx returns                                            *)
(***************************************************************************)
\* the Result of a call that asks the node for a transaction: request is
\* TRUE when a request goes to the node; the calls of rpc::tx return
\* Err(GenesisTx) or the synthesized transaction for the coinbase of
\* genesis before any request
AskNode(txid, ok, block_hash) == [ok |-> ok /\ NodeServesRaw(txid), block_hash |-> block_hash, request |-> TRUE]

\* rpc::tx::call_raw(txid) in an arm that returns block_hash with the bytes
CallRaw(txid, ok, block_hash) ==
    IF txid = Coinbase(Genesis) THEN [ok |-> FALSE, block_hash |-> <<>>, request |-> FALSE]
    ELSE AskNode(txid, ok, block_hash)

\* rpc::tx::call_parse_json and rpc::tx::call_json_only_hash
CallJson(txid, ok) ==
    IF txid = Coinbase(Genesis) THEN [ok |-> TRUE, block_hash |-> <<Genesis>>, request |-> FALSE]
    ELSE AskNode(txid, ok, NodeTxBlockHash(txid))

\* the Result of SharedState::tx(txid, needs_block_hash) on the caches as
\* they are; ok is FALSE when the call to the node fails
SharedStateTxResult(txid, needs_block_hash, ok) ==
    IF ~needs_block_hash
    THEN (IF txid \in CacheKeys(txs) THEN [ok |-> TRUE, block_hash |-> <<>>, request |-> FALSE] ELSE CallRaw(txid, ok, <<>>))
    ELSE IF txid \in CacheKeys(txs) /\ LruValue(tx_in_block, TruncTxid(txid)) # <<>>
    THEN [ok |-> TRUE, block_hash |-> LruValue(tx_in_block, TruncTxid(txid)), request |-> FALSE]
    ELSE IF txid \in CacheKeys(txs)
    THEN CallJson(txid, ok)
    ELSE IF LruValue(tx_in_block, TruncTxid(txid)) # <<>>
    THEN CallRaw(txid, ok, LruValue(tx_in_block, TruncTxid(txid)))
    ELSE CallJson(txid, ok)

\* C15: SharedState::tx of the coinbase of genesis, with and without the
\* block hash and in every state of the caches, succeeds with the
\* synthesized transaction (and the genesis block when the block hash is
\* asked) and sends no request to the node.
C15_GenesisTxSynthesized ==
    \A needs_block_hash, ok \in BOOLEAN :
        /\ SharedStateTxResult(Coinbase(Genesis), needs_block_hash, ok).ok
        /\ ~SharedStateTxResult(Coinbase(Genesis), needs_block_hash, ok).request
        /\ needs_block_hash => SharedStateTxResult(Coinbase(Genesis), needs_block_hash, ok).block_hash = <<Genesis>>

\* the transaction is one of the block
BlockContains(block, txid) == \E i \in 1..Len(Txdata(block)) : Txdata(block)[i] = txid

\* C16: SharedState::tx(T, true) returns a block for T only when that block
\* contains T, also when the tx->block cache holds the block of another
\* transaction whose txid has the same first 8 bytes.
C16_BlockOfTxVerified ==
    \A txid \in AllTxids : \A ok \in BOOLEAN :
        (SharedStateTxResult(txid, TRUE, ok).ok /\ SharedStateTxResult(txid, TRUE, ok).block_hash # <<>>) =>
            BlockContains(SharedStateTxResult(txid, TRUE, ok).block_hash[1], txid)


(***************************************************************************)
(* pages/block.rs: the page of a block                                     *)
(***************************************************************************)
\* the greatest number of transactions of the blocks asked
MaxBlockTxs == 25

\* the greatest of the small page numbers asked
MaxPage == 3

PerPage == 10

\* block.tx: the txids of a block of n transactions, in block order
BlockTx(n) == [i \in 1..n |-> 200 + i]

\* the page numbers of the requests, usize values parsed from the path: the
\* small ones, and the two least numbers whose product with PER_PAGE does
\* not fit in 64 bits, 0x199999999999999A and 0x199999999999999B
PageNumbers == {U64(p) : p \in 0..MaxPage} \cup {<<6553, 39321, 39321, 39322>>, <<6553, 39321, 39321, 39323>>}

RECURSIVE MulWide(_, _, _)
\* the limbs of a * m + carry with m small, one limb more than a
MulWide(a, m, carry) ==
    IF a = <<>> THEN <<carry>>
    ELSE Append(MulWide(SubSeq(a, 1, Len(a) - 1), m, (a[Len(a)] * m + carry) \div 65536), (a[Len(a)] * m + carry) % 65536)

\* the number of a usize below 2^31
UsizeToInt(x) == x[3] * 65536 + x[4]

\* block.tx.iter().skip(from_tx).take(PER_PAGE).enumerate() with
\* translate(i) = i + from_tx: the rows <<index shown, txid>>
Rows(tx, from_tx) ==
    LET skipped == SubSeq(tx, from_tx + 1, Len(tx))
        taken == SubSeq(skipped, 1, IF Len(skipped) < PerPage THEN Len(skipped) ELSE PerPage)
    IN  [i \in 1..Len(taken) |-> <<(i - 1) + from_tx, taken[i]>>]

\* pages::block::page(block, page) for a block of n transactions.  The
\* product page * PER_PAGE that leaves usize panics with overflow checks
\* and wraps without.
Page(n, page, overflow_checks) ==
    LET wide == MulWide(page, PerPage, 0)
    IN  IF wide[1] # 0 /\ overflow_checks THEN [kind |-> "panic", rows |-> <<>>]
        ELSE IF CmpDigits(SubSeq(wide, 2, 5), U64(n)) >= 0 THEN [kind |-> "InvalidPageNumber", rows |-> <<>>]
        ELSE [kind |-> "page", rows |-> Rows(BlockTx(n), UsizeToInt(SubSeq(wide, 2, 5)))]

\* a request of the page of a block
BlockPage ==
    /\ \E n \in 0..MaxBlockTxs : \E page \in PageNumbers : \E overflow_checks \in BOOLEAN :
        /\ page_req' = <<[n |-> n, page |-> page]>>
        /\ page_res' = <<Page(n, page, overflow_checks)>>
    /\ UNCHANGED <<nodeVars, cacheVars, chainVars, bootVars, tipVars, mempoolVars, indexVars, mainVars, concVars>>

InitBlockPage == EngineStart(MempoolTxids, Blocks, FALSE)

SpecBlockPage == InitBlockPage /\ [][BlockPage]_vars

\* 10 p >= n for the page number p, in the integers
TenTimesAtLeast(p, n) == p[1] # 0 \/ p[2] # 0 \/ p[3] # 0 \/ 10 * p[4] >= n

\* what C19 says of the answer res to the page p of a block of n
\* transactions
ListsTheTenOfThePage(n, p, res) ==
    /\ res.kind = "InvalidPageNumber" <=> TenTimesAtLeast(p, n)
    /\ ~TenTimesAtLeast(p, n) =>
        /\ res.kind = "page"
        /\ Len(res.rows) = Min(10 * p[4] + 10, n) - 10 * p[4]
        /\ \A i \in 1..Len(res.rows) : res.rows[i] = <<10 * p[4] + i - 1, BlockTx(n)[10 * p[4] + i]>>

\* C19: the page p of a block of n transactions lists exactly the
\* transactions of the indices 10p .. min(10p + 10, n) - 1 in block order, and
\* the answer is InvalidPageNumber exactly when 10p >= n.
C19_BlockPagination ==
    page_res # <<>> => ListsTheTenOfThePage(page_req[1].n, page_req[1].page, page_res[1])

\* the same for the page numbers whose product with 10 fits in 64 bits
BlockPaginationWithoutOverflow ==
    (page_res # <<>> /\ MulWide(page_req[1].page, PerPage, 0)[1] = 0) => ListsTheTenOfThePage(page_req[1].n, page_req[1].page, page_res[1])


(***************************************************************************)
(* lib.rs: inner_main up to the server                                     *)
(***************************************************************************)
\* the networks of the arguments
Networks == {"bitcoin", "testnet", "signet", "regtest"}

\* the chain names of the node; the last one is known to some versions of
\* Network::from_core_arg only
Chains == {"main", "test", "signet", "regtest", "testnet4"}

\* Network::from_core_arg(chain), an Option; known tells whether the build
\* knows testnet4
FromCoreArg(chain, known) ==
    IF chain = "main" THEN <<"bitcoin">>
    ELSE IF chain = "test" THEN <<"testnet">>
    ELSE IF chain = "signet" THEN <<"signet">>
    ELSE IF chain = "regtest" THEN <<"regtest">>
    ELSE IF known THEN <<"testnet4">>
    ELSE <<>>

\* a check that accepts every network
CheckNetwork_Always(fbbe, bitcoind) == TRUE

\* check_network(bitcoind) is Ok
CheckNetwork(fbbe, bitcoind) == fbbe = bitcoind

\* inner_main returns Err(error)
MainExit(error) ==
    /\ main_pc' = "exit"
    /\ main_error' = error
    /\ UNCHANGED main_started

\* the loop on rpc::chaininfo::call: it waits while the node loads (503) or
\* is in its initial block download
MainChainInfo ==
    /\ main_pc = "chaininfo"
    /\ \E answer \in {"synced", "initial_block_download", "404", "503", "error"} :
        CASE answer = "synced" -> main_pc' = "db" /\ UNCHANGED <<main_error, main_started>>
          [] answer = "404" -> MainExit("RestFlag")
          [] answer = "error" -> MainExit("RpcChainInfo")
          [] OTHER -> UNCHANGED <<main_pc, main_error, main_started>>
    /\ UNCHANGED <<nodeVars, cacheVars, chainVars, bootVars, tipVars, mempoolVars, indexVars, pageVars, concVars, fbbe_network, node_chain, addr_index_path, txid_blockhash_len>>

\* args.addr_index_path.as_ref().map(Database::new).transpose()?
MainDatabase ==
    /\ main_pc = "db"
    /\ IF addr_index_path
       THEN \E ok \in BOOLEAN :
                IF ok
                THEN /\ main_started' = main_started \cup {"db"}
                     /\ main_pc' = "network"
                     /\ UNCHANGED main_error
                ELSE MainExit("Rocksdb")
       ELSE main_pc' = "network" /\ UNCHANGED <<main_error, main_started>>
    /\ UNCHANGED <<nodeVars, cacheVars, chainVars, bootVars, tipVars, mempoolVars, indexVars, pageVars, concVars, fbbe_network, node_chain, addr_index_path, txid_blockhash_len>>

\* Network::from_core_arg(chain_info.chain)? and check_network(core_net)?
MainCheckNetwork ==
    /\ main_pc = "network"
    /\ \E known \in BOOLEAN :
        IF FromCoreArg(node_chain, known) = <<>> THEN MainExit("ParseNetwork")
        ELSE IF CheckNetwork(fbbe_network, FromCoreArg(node_chain, known)[1])
        THEN main_pc' = "mempoolinfo" /\ UNCHANGED <<main_error, main_started>>
        ELSE MainExit("WrongNetwork")
    /\ UNCHANGED <<nodeVars, cacheVars, chainVars, bootVars, tipVars, mempoolVars, indexVars, pageVars, concVars, fbbe_network, node_chain, addr_index_path, txid_blockhash_len>>

\* rpc::mempool::info().await?
MainMempoolInfo ==
    /\ main_pc = "mempoolinfo"
    /\ \E ok \in BOOLEAN :
        IF ok THEN main_pc' = "state" /\ UNCHANGED <<main_error, main_started>> ELSE MainExit("RpcMempoolInfo")
    /\ UNCHANGED <<nodeVars, cacheVars, chainVars, bootVars, tipVars, mempoolVars, indexVars, pageVars, concVars, fbbe_network, node_chain, addr_index_path, txid_blockhash_len>>

\* Arc::new(SharedState::new(..))
MainSharedState ==
    /\ main_pc = "state"
    /\ main_started' = main_started \cup {"shared_state"}
    /\ main_pc' = "spawn"
    /\ UNCHANGED <<nodeVars, cacheVars, chainVars, bootVars, tipVars, mempoolVars, indexVars, pageVars, concVars, fbbe_network, node_chain, addr_index_path, txid_blockhash_len, main_error>>

\* the spawn of the bootstrap and of the task that starts the tip tracker,
\* the indexer, the subscriber and the mempool engine when it has ended
MainSpawn ==
    /\ main_pc = "spawn"
    /\ main_started' = main_started \cup {"bootstrap", "tasks"}
    /\ main_pc' = "bind"
    /\ UNCHANGED <<nodeVars, cacheVars, chainVars, bootVars, tipVars, mempoolVars, indexVars, pageVars, concVars, fbbe_network, node_chain, addr_index_path, txid_blockhash_len, main_error>>

\* Server::bind(&addr).serve(make_service)
MainServe ==
    /\ main_pc = "bind"
    /\ main_started' = main_started \cup {"server"}
    /\ main_pc' = "serve"
    /\ UNCHANGED <<nodeVars, cacheVars, chainVars, bootVars, tipVars, mempoolVars, indexVars, pageVars, concVars, fbbe_network, node_chain, addr_index_path, txid_blockhash_len, main_error>>

\* the process starts with any network in its arguments, on a node of any
\* chain, with or without the path of an address index
InitMain ==
    /\ SharedStateNew
    /\ fbbe_network \in Networks
    /\ node_chain \in Chains
    /\ addr_index_path \in BOOLEAN
    /\ txid_blockhash_len = TxidBlockhashLen
    /\ main_pc = "chaininfo"
    /\ main_error = ""
    /\ main_started = {}

NextMain ==
    \/ MainChainInfo
    \/ MainDatabase
    \/ MainCheckNetwork
    \/ MainMempoolInfo
    \/ MainSharedState
    \/ MainSpawn
    \/ MainServe

SpecMain == InitMain /\ [][NextMain]_vars

\* the chain of the node is not the network of the arguments
WrongNetwork == FromCoreArg(node_chain, TRUE) # <<fbbe_network>>

\* inner_main has returned after the node reported its chain
EndedAfterChainInfo == main_pc = "exit" /\ main_error \notin {"RestFlag", "RpcChainInfo"}

\* the shared state, a task or the server exists
StateTasksOrServer == main_started \cap {"shared_state", "bootstrap", "tasks", "server"} # {}

\* C20 as stated: on a node of another chain the startup ends with
\* WrongNetwork, before the shared state is created, a task is started or
\* the server accepts requests.
C20_EndsWithWrongNetwork ==
    WrongNetwork =>
        /\ ~StateTasksOrServer
        /\ EndedAfterChainInfo => main_error = "WrongNetwork"

\* C20: on a node of another chain the startup never creates the shared
\* state, starts a task or binds the server, and when it ends after the
\* node reported its chain it ends with WrongNetwork, unless the opening of
\* the address index or the parsing of the chain name failed first.
C20_WrongNetworkStopsStartup ==
    WrongNetwork =>
        /\ ~StateTasksOrServer
        /\ main_pc \in {"chaininfo", "db", "network", "exit"}
        /\ EndedAfterChainInfo => main_error \in {"WrongNetwork", "Rocksdb", "ParseNetwork"}
        /\ (EndedAfterChainInfo /\ main_error = "Rocksdb") => (addr_index_path /\ "db" \notin main_started)
        /\ (EndedAfterChainInfo /\ main_error = "ParseNetwork") => node_chain = "testnet4"

\* the startup ended with WrongNetwork after it opened the address index
C20_Witness ==
    /\ WrongNetwork
    /\ main_pc = "exit"
    /\ main_error = "WrongNetwork"
    /\ main_started = {"db"}


(***************************************************************************)
(* The tip tracker on a node that answers every request and whose best     *)
(* chain is extended by one block, once                                    *)
(***************************************************************************)
\* the node connects a block on top of its tip, and keeps it from then on
NodeExtendTip ==
    /\ node_tips # {node_tip}
    /\ \E blk \in Blocks :
        /\ PrevBlockhash(blk) = node_tip
        /\ node_tip' = blk
        /\ node_tips' = {blk}
    /\ UNCHANGED <<node_size_on_disk, node_txids, cacheVars, chainVars, bootVars, tipVars, mempoolVars, frontVars, indexVars>>

BootstrapHeadersOk == BootstrapHeadersWith(TRUE)

BootstrapBlockOk == BootstrapBlockWith(TRUE)

PollOk == PollWith(TRUE)

WalkStepOk == WalkStepWith(TRUE)

NextLive ==
    \/ NodeExtendTip
    \/ NodeSizeOnDisk
    \/ BootstrapHeadersOk
    \/ BootstrapBlockOk
    \/ UpdateBlocksInLastHour
    \/ PollOk
    \/ WalkStepOk
    \/ Publish

\* the runtime runs every task that can take a step, and the sleeps end
FairLive ==
    /\ WF_vars(BootstrapHeadersOk)
    /\ WF_vars(BootstrapBlockOk)
    /\ WF_vars(UpdateBlocksInLastHour)
    /\ WF_vars(PollOk)
    /\ WF_vars(WalkStepOk)
    /\ WF_vars(Publish)

SpecLive == Init /\ [][NextLive]_vars /\ FairLive

\* the node has connected the new block
TipExtended == node_tips = {node_tip}

\* the last transaction of the block is the most recent entry of the
\* tx->block cache, mapped to the block, and is in the bytes cache
LastTxCached(blk) ==
    /\ tx_in_block # <<>>
    /\ tx_in_block[Len(tx_in_block)] = <<TruncTxid(Txdata(blk)[Len(Txdata(blk))]), blk>>
    /\ Txdata(blk)[Len(Txdata(blk))] \in CacheKeys(txs)

\* chain_info is the one of the node's tip and the walk that ended gave the
\* tip to update_cache
TipPublished ==
    /\ chain_info.blocks = HeightOf(node_tip)
    /\ chain_info.best_block_hash = node_tip
    /\ \E i \in 1..Len(walked) : walked[i] = <<node_tip, HeightOf(node_tip)>>
    /\ LastTxCached(node_tip)

\* C21: when the node has extended its chain by one block and keeps it, and
\* its answers succeed, the tip tracker eventually publishes the chain_info
\* of the new tip, after update_cache has put the transactions of the new
\* block in the tx->block cache and offered them to the bytes cache.
C21_TipExtensionLiveness == (TipExtended /\ chain_info.best_block_hash # node_tip) ~> TipPublished

\* the same, unless the tip tracker has ended on a panic
TipExtensionUnlessPanic == (TipExtended /\ chain_info.best_block_hash # node_tip) ~> (TipPublished \/ tip_pc = "dead")

\* the call of the node in this step of the tip tracker failed
TipTrackerFailure == PollWith(FALSE) \/ WalkStepWith(FALSE)

\* C26: after a failure in a cycle of the tip tracker, of the poll of
\* chain-info or of a block fetch of the backward walk, the tip tracker
\* keeps running: it goes on to its next cycle, which sleeps and polls
\* again.
C26_TrackerSurvivesFailure == [][TipTrackerFailure => tip_pc' = "minutes"]_vars

\* the part on the poll: after a failed poll the tip tracker starts its
\* next cycle
FailedPollKeepsRunning == [][PollWith(FALSE) => tip_pc' = "minutes"]_vars


(***************************************************************************)
(* The cycle of the tip tracker: what starts a walk, what a walk leaves    *)
(***************************************************************************)
\* the two chain infos have the same height and the same tip
SamePair(a, b) == a.blocks = b.blocks /\ a.best_block_hash = b.best_block_hash

\* C27: when the poll returns the height and the tip of the last observed
\* chain info, whatever its other fields are, the tip tracker starts no
\* walk: it fetches no block, gives none to update_cache or to the indexer
\* and publishes nothing.
C27_SamePairNoIngestion ==
    /\ tip_pc \in {"walk", "publish"} => ~SamePair(walk_from, last_tip)
    /\ walked # <<>> => ~SamePair(walk_from, last_tip)

\* the blocks of the walk are each the predecessor of the one before, at
\* the height below
WalkedConnected ==
    \A i \in 1..(Len(walked) - 1) : walked[i + 1] = <<PrevBlockhash(walked[i][1]), walked[i][2] - 1>>

\* the predecessor of the last block of the walk is cached, one below
WalkedReachesCache ==
    LET last == walked[Len(walked)]
    IN  PreviousHasCorrectHeight(hash_to_height_time, PrevBlockhash(last[1]), last[2])

\* the maps hold the tip that the walk started from
TipInMaps(tip) ==
    /\ height_to_hash[tip.blocks] = tip.best_block_hash
    /\ tip.best_block_hash \in DOMAIN hash_to_height_time
    /\ hash_to_height_time[tip.best_block_hash].height = tip.blocks

\* C28: chain_info is set to a new tip only when the backward walk for it
\* has completed.  While the walk runs chain_info is still the one the
\* cycle started from; when chain_info is about to be set and when it has
\* just been set, the height map holds the tip at its height, the
\* (id -> height,time) map holds the tip with its height, the blocks of the
\* walk are a chain from the tip downward and the predecessor of the last
\* one is cached with the height below.
C28_PublishAfterWalk ==
    /\ tip_pc \in {"walk", "publish"} => (chain_info = walk_from /\ chain_info # last_tip)
    /\ (tip_pc = "publish" \/ IngestionCompleted) =>
        /\ walked # <<>>
        /\ walked[1] = <<last_tip.best_block_hash, last_tip.blocks>>
        /\ TipInMaps(last_tip)
        /\ WalkedConnected
        /\ WalkedReachesCache
    /\ IngestionCompleted => chain_info = last_tip

\* a walk of two blocks has ended and its tip is published
C28_Witness ==
    /\ IngestionCompleted
    /\ Len(walked) = 2
    /\ chain_info = last_tip
    /\ TipInMaps(last_tip)


(***************************************************************************)
(* threads/index_addresses.rs: the history of an address                   *)
(***************************************************************************)
\* most funding outpoints of the address in a request
MaxFunding == 2

\* most inputs of a transaction of the spending block
MaxTxInputs == 2

\* the outputs that pay the address, and one that does not
AddrOutPoints == {OutPoint(1, 0), OutPoint(1, 1), OutPoint(2, 0), OutPoint(2, 1)}

OtherOutPoint == OutPoint(9, 0)

\* the sequences without repetition of at most n elements of S
SeqsNoRep(S, n) == UNION {{s \in [1..k -> S] : \A i, j \in 1..k : s[i] = s[j] => i = j} : k \in 0..n}

\* outpoints_with_script_pubkey: the outputs found in the funding blocks
FundingLists == SeqsNoRep(AddrOutPoints, MaxFunding)

\* the inputs of a transaction
TxInputLists == SeqsNoRep(AddrOutPoints \cup {OtherOutPoint}, MaxTxInputs) \ {<<>>}

\* the outpoints of a sequence
Range(s) == {s[i] : i \in 1..Len(s)}

\* a block that blocks_from_heights returned for a height of the spending
\* index: one or two transactions that spend different outputs
SpendingBlocks ==
    {<<[txid |-> 21, input |-> a]>> : a \in TxInputLists}
    \cup {<<[txid |-> 21, input |-> ab[1]], [txid |-> 22, input |-> ab[2]]>> : ab \in {x \in TxInputLists \X TxInputLists : Range(x[1]) \cap Range(x[2]) = {}}}

\* AddressSeen::new for every funding outpoint
NewAddressSeen(funding_list) == [i \in 1..Len(funding_list) |-> [funding |-> funding_list[i], spending |-> <<>>]]

\* the first entry whose funding outpoint is the prevout, 0 when none
RECURSIVE SeenPosition(_, _, _)
SeenPosition(address_seen, prevout, i) ==
    IF i > Len(address_seen) THEN 0
    ELSE IF address_seen[i].funding = prevout THEN i
    ELSE SeenPosition(address_seen, prevout, i + 1)

\* visit_tx_in on the inputs of one transaction from index vin: the field
\* found after the last input
RECURSIVE VisitTxIns(_, _, _, _)
VisitTxIns(input, vin, address_seen, found) ==
    IF vin >= Len(input) THEN found
    ELSE LET i == SeenPosition(address_seen, input[vin + 1], 1)
         IN  VisitTxIns(input, vin + 1, address_seen, IF i # 0 THEN <<[i |-> i, vin |-> vin]>> ELSE found)

\* visit_transaction: the entry that found names gets the spending
VisitTransaction(txid, found, h, t, address_seen) ==
    IF found = <<>> THEN address_seen
    ELSE [address_seen EXCEPT ![found[1].i].spending = <<[txid |-> txid, vin |-> found[1].vin, block_hash |-> h, height_time |-> t]>>]

\* find_txids_with_prevout(h, b, t, &mut address_seen): the visit of the
\* transactions of b in block order
RECURSIVE FindTxidsWithPrevout(_, _, _, _)
FindTxidsWithPrevout(h, b, t, address_seen) ==
    IF b = <<>> THEN address_seen
    ELSE FindTxidsWithPrevout(h, Tail(b), t,
            VisitTransaction(Head(b).txid, VisitTxIns(Head(b).input, 0, address_seen, <<>>), h, t, address_seen))

\* the block id and the (height, time) of the spending block
SpendingBlockHash == <<1, 2>>

SpendingHeightTime == [height |-> HeightOf(SpendingBlockHash), time |-> TimeOf(SpendingBlockHash)]

\* one request of address_seen, from the funding outpoints on: the block of
\* the spending index is given to find_txids_with_prevout
AddressSeen ==
    /\ page_req = <<>>
    /\ \E funding_list \in FundingLists, b \in SpendingBlocks :
        /\ page_req' = <<[funding |-> funding_list, block |-> b]>>
        /\ page_res' = <<FindTxidsWithPrevout(SpendingBlockHash, b, SpendingHeightTime, NewAddressSeen(funding_list))>>
    /\ UNCHANGED <<nodeVars, cacheVars, chainVars, bootVars, tipVars, mempoolVars, indexVars, mainVars, concVars>>

InitAddress == EngineStart(MempoolTxids, Blocks, TRUE)

SpecAddress == InitAddress /\ [][AddressSeen]_vars

\* the inputs of block b that consume out_point: <<txid, vin>>
Consumers(b, out_point) ==
    {c \in {21, 22} \X (0..(MaxTxInputs - 1)) : \E k \in 1..Len(b) : b[k].txid = c[1] /\ c[2] < Len(b[k].input) /\ b[k].input[c[2] + 1] = out_point}

\* the entry of every funding outpoint carries the input that consumes it,
\* and none when no input does
SpendingOfEveryEntry(funding_list, b, address_seen) ==
    /\ Len(address_seen) = Len(funding_list)
    /\ \A i \in 1..Len(funding_list) :
        /\ address_seen[i].funding = funding_list[i]
        /\ \A c \in Consumers(b, funding_list[i]) :
            address_seen[i].spending = <<[txid |-> c[1], vin |-> c[2], block_hash |-> SpendingBlockHash, height_time |-> SpendingHeightTime]>>
        /\ Consumers(b, funding_list[i]) = {} => address_seen[i].spending = <<>>

\* C22: every funding outpoint that an input of the spending block consumes
\* carries that transaction, that input index, the block and its time, also
\* when one transaction consumes several funding outpoints of the address;
\* an outpoint that no input consumes has no spending.
C22_AddressHistorySpending ==
    page_res # <<>> => SpendingOfEveryEntry(page_req[1].funding, page_req[1].block, page_res[1])

\* no transaction of the block consumes two outpoints of the list
OnePerTransaction(funding_list, b) ==
    \A k \in 1..Len(b) : Cardinality(Range(b[k].input) \cap Range(funding_list)) <= 1

\* the same when every transaction consumes at most one funding outpoint
AddressHistoryOnePerTransaction ==
    (page_res # <<>> /\ OnePerTransaction(page_req[1].funding, page_req[1].block)) =>
        SpendingOfEveryEntry(page_req[1].funding, page_req[1].block, page_res[1])


(***************************************************************************)
(* The requests: SharedState::tx and SharedState::height_time as the       *)
(* route handlers call them                                                *)
(***************************************************************************)
\* the requests that rpc::tx::call_raw sends to the node
CallRawRequests_Twice(txid) == <<"tx.bin", "tx.bin">>

CallRawRequests(txid) == IF txid = Coinbase(Genesis) THEN <<>> ELSE <<"tx.bin">>

\* the requests that rpc::tx::call_json and call_json_only_hash send
CallJsonRequests(txid) == IF txid = Coinbase(Genesis) THEN <<>> ELSE <<"tx.json">>

\* the requests that SharedState::tx(txid, needs_block_hash) sends, by the
\* answers of the two caches
SharedStateTxRequests(txid, needs_block_hash, tx_hit, block_hit) ==
    IF ~needs_block_hash
    THEN (IF tx_hit THEN <<>> ELSE CallRawRequests(txid))
    ELSE IF tx_hit /\ block_hit THEN <<>>
    ELSE IF tx_hit THEN CallJsonRequests(txid)
    ELSE IF block_hit THEN CallRawRequests(txid)
    ELSE CallJsonRequests(txid)

\* the transactions that the requests ask for: two confirmed ones, a
\* coinbase and the coinbase of genesis
RequestTxids == {1, 2, Coinbase(<<1, 1>>), Coinbase(Genesis)}

\* a request that calls SharedState::tx: the transaction page with the
\* block hash, the search and the inputs of a transaction without
TxRequest ==
    /\ \E txid \in RequestTxids : \E needs_block_hash, ok \in BOOLEAN :
        /\ SharedStateTxOf(txid, needs_block_hash, ok)
        /\ page_req' = <<[call |-> "tx", txid |-> txid, needs_block_hash |-> needs_block_hash,
                          tx_hit |-> txid \in CacheKeys(txs), block_hit |-> LruValue(tx_in_block, TruncTxid(txid)) # <<>>]>>
        /\ page_res' = <<[ok |-> SharedStateTxResult(txid, needs_block_hash, ok).ok,
                          block_hash |-> SharedStateTxResult(txid, needs_block_hash, ok).block_hash,
                          requests |-> SharedStateTxRequests(txid, needs_block_hash, txid \in CacheKeys(txs), LruValue(tx_in_block, TruncTxid(txid)) # <<>>)]>>
    /\ UNCHANGED <<nodeVars, chainVars, bootVars, tipVars, mempoolVars, mainVars, concVars, indexVars>>

\* SharedState::height_time(chain_info.best_block_hash) of the home page:
\* on a miss the header of the node goes in the (id -> height,time) map and
\* in the height map
HeightTimeRequest ==
    /\ \E block_hash \in {chain_info.best_block_hash} : \E ok \in BOOLEAN :
        /\ IF block_hash \notin DOMAIN hash_to_height_time /\ ok
           THEN /\ hash_to_height_time' = UpdateCacheHashToHeightTime(hash_to_height_time, block_hash, HeightOf(block_hash))
                /\ height_to_hash' = UpdateCacheHeightToHash(height_to_hash, block_hash, HeightOf(block_hash))
                /\ height_to_hash_len' = Reserve(height_to_hash_len, HeightOf(block_hash))
           ELSE UNCHANGED <<hash_to_height_time, height_to_hash, height_to_hash_len>>
        /\ page_req' = <<[call |-> "height_time", block_hash |-> block_hash, hit |-> block_hash \in DOMAIN hash_to_height_time]>>
        /\ page_res' = <<[ok |-> block_hash \in DOMAIN hash_to_height_time \/ ok,
                          requests |-> IF block_hash \in DOMAIN hash_to_height_time THEN <<>> ELSE <<"headers">>]>>
    /\ UNCHANGED <<nodeVars, cacheVars, chain_info, minutes_since_block, bootVars, tipVars, mempoolVars, mainVars, concVars, indexVars>>

NextRequest ==
    \/ TxRequest
    \/ HeightTimeRequest

\* the requests on the state that SharedState::new leaves
SpecRequest == Init /\ [][NextRequest]_vars

\* the last request was a call of SharedState::tx
TxRecorded == page_req # <<>> /\ page_req[1].call = "tx"

\* what the call r sent and cached, s its result, on the caches after it
ExactlyTheMissingPiece(r, s) ==
    /\ (~r.needs_block_hash /\ r.tx_hit) => (s.ok /\ s.requests = <<>> /\ s.block_hash = <<>>)
    /\ (r.needs_block_hash /\ r.tx_hit /\ r.block_hit) => s.requests = <<>>
    /\ (r.needs_block_hash /\ r.tx_hit /\ ~r.block_hit) => s.requests = <<"tx.json">>
    /\ (r.needs_block_hash /\ ~r.tx_hit /\ r.block_hit) => s.requests = <<"tx.bin">>
    /\ (r.needs_block_hash /\ ~r.tx_hit /\ ~r.block_hit) => Len(s.requests) = 1
    /\ (s.ok /\ ~r.tx_hit) => r.txid \in CacheKeys(txs)
    /\ (s.ok /\ r.needs_block_hash /\ ~r.block_hit /\ s.block_hash # <<>>) => LruValue(tx_in_block, TruncTxid(r.txid)) = s.block_hash

\* C29 as stated: SharedState::tx sends no request for what the caches
\* hold, one tx-json request when only the block is missing, one tx-bytes
\* request when only the bytes are missing, a single request when both are
\* missing, and a successful call leaves the fetched piece in its cache.
C29_ExactlyTheMissingPiece == TxRecorded => ExactlyTheMissingPiece(page_req[1], page_res[1])

\* C29: the same for every transaction but the coinbase of genesis; for
\* that one no request is ever sent.
C29_MissingPieceButGenesis ==
    TxRecorded =>
        IF page_req[1].txid = Coinbase(Genesis)
        THEN page_res[1].requests = <<>>
        ELSE ExactlyTheMissingPiece(page_req[1], page_res[1])

\* a call found the bytes and not the block, asked the node for the json
\* and cached the block
C29_Witness ==
    /\ TxRecorded
    /\ page_req[1].txid # Coinbase(Genesis)
    /\ page_req[1].needs_block_hash /\ page_req[1].tx_hit /\ ~page_req[1].block_hit
    /\ page_res[1].ok
    /\ page_res[1].requests = <<"tx.json">>
    /\ page_res[1].block_hash # <<>>
    /\ LruValue(tx_in_block, TruncTxid(page_req[1].txid)) = page_res[1].block_hash

TxPopulatesOnMiss ==
    /\ CacheKeys(txs') \subseteq CacheKeys(txs) \cup {page_req'[1].txid}
    /\ Range(tx_in_block') \subseteq Range(tx_in_block) \cup {<<TruncTxid(page_req'[1].txid), block_hash>> : block_hash \in Blocks}
    /\ page_req'[1].tx_hit => txs' = txs
    /\ ~page_req'[1].needs_block_hash => tx_in_block' = tx_in_block
    /\ page_req'[1].block_hit => Range(tx_in_block') = Range(tx_in_block)
    /\ UNCHANGED <<hash_to_height_time, height_to_hash>>

\* the step of a call of height_time only adds the block of the call
HeightTimePopulatesOnMiss ==
    /\ UNCHANGED <<txs, tx_in_block>>
    /\ page_req'[1].hit => UNCHANGED <<hash_to_height_time, height_to_hash>>
    /\ DOMAIN hash_to_height_time' \subseteq DOMAIN hash_to_height_time \cup {page_req'[1].block_hash}
    /\ \A b \in DOMAIN hash_to_height_time : hash_to_height_time'[b] = hash_to_height_time[b]
    /\ \A h \in DOMAIN height_to_hash : height_to_hash'[h] \in {height_to_hash[h], page_req'[1].block_hash}

HeightTimeSteps ==
    << <<"lock", "hash_to_height_time">>,
       <<"unlock", "hash_to_height_time">>,
       <<"branch", 0>>,                        \* Some(height_time)
       <<"call", "headers", 0>>,
       <<"lock", "hash_to_height_time">>,
       <<"unlock", "hash_to_height_time">>,
       <<"lock", "height_to_hash">>,
       <<"unlock", "height_to_hash">> >>

\* SharedState::hash: the guard is a local of the function
HashSteps ==
    << <<"lock", "height_to_hash">>,
       <<"branch", 4>>,                        \* height hit
       <<"call", "blockhashbyheight", 0>>,
       <<"unlock", "height_to_hash">> >>

\* SharedState::blocks_from_heights of one height: the guard is a temporary
\* of the if let, block_hash borrows from it
BlocksFromHeightsSteps ==
    << <<"lock", "height_to_hash">>,
       <<"branch", 4>>,                        \* None
       <<"call", "block.bin", 0>>,
       <<"unlock", "height_to_hash">> >>

\* SharedState::tx, with tx_fetch_and_cache from step 23
TxSteps ==
    << <<"lock", "txs">>,
       <<"unlock", "txs">>,
       <<"branch", 9>>,                        \* needs_block_hash
       <<"branch", 0>>,                        \* Some(tx)
       <<"call", "tx.bin", 0>>,
       <<"lock", "txs">>,
       <<"unlock", "txs">>,
       <<"return">>,
       <<"lock", "tx_in_block">>,              \* 9
       <<"unlock", "tx_in_block">>,
       <<"branch", 0>>,                        \* (Some, Some)
       <<"branch", 19>>,                       \* (None, Some)
       <<"branch", 23>>,                       \* (None, None)
       <<"call", "tx.json", 0>>,               \* (Some, None)
       <<"branch", 0>>,                        \* the node knows no block
       <<"lock", "tx_in_block">>,
       <<"unlock", "tx_in_block">>,
       <<"return">>,
       <<"call", "tx.bin", 0>>,                \* 19
       <<"lock", "txs">>,
       <<"unlock", "txs">>,
       <<"return">>,
       <<"call", "tx.json", 0>>,               \* 23: tx_fetch_and_cache
       <<"lock", "txs">>,
       <<"branch", 28>>,                       \* block_hash is None
       <<"lock", "tx_in_block">>,
       <<"unlock", "tx_in_block">>,
       <<"unlock", "txs">> >>                  \* 28

\* SharedState::preload_prevouts_inner: the requests of the stream are one step
PreloadPrevoutsInnerSteps ==
    << <<"lock", "txs">>,
       <<"unlock", "txs">>,
       <<"call", "tx.bin", 4>>,
       <<"lock", "txs">>,
       <<"unlock", "txs">> >>

\* the home page, route.rs: the four clones
HomeSteps ==
    << <<"lock", "chain_info">>,
       <<"unlock", "chain_info">>,
       <<"lock", "mempool_info">>,
       <<"unlock", "mempool_info">>,
       <<"lock", "mempool_fees">>,
       <<"unlock", "mempool_fees">>,
       <<"lock", "minutes_since_block">>,
       <<"unlock", "minutes_since_block">> >>

\* update_chain_info, the walk of a new tip: the block of the node, update_cache
\* with Some(height), the look-up of prev_blockhash, the publication
UpdateChainInfoSteps ==
    << <<"call", "block", 0>>,
       <<"lock", "txs">>,                      \* update_cache
       <<"lock", "tx_in_block">>,
       <<"lock", "hash_to_height_time">>,
       <<"unlock", "hash_to_height_time">>,
       <<"lock", "height_to_hash">>,
       <<"unlock", "height_to_hash">>,
       <<"unlock", "tx_in_block">>,
       <<"unlock", "txs">>,
       <<"lock", "hash_to_height_time">>,      \* 10: the match
       <<"unlock", "hash_to_height_time">>,
       <<"branch", 1>>,                        \* None: the parent is asked
       <<"lock", "chain_info">>,
       <<"unlock", "chain_info">> >>

\* update_blocks_in_last_hour: height_time is called inside the block that
\* holds the guard of height_to_hash
UpdateBlocksInLastHourSteps ==
    << <<"lock", "height_to_hash">>,
       <<"branch", 12>>,                       \* 2: break, or the loop is over
       <<"lock", "hash_to_height_time">>,      \* height_time
       <<"unlock", "hash_to_height_time">>,
       <<"branch", 2>>,                        \* Some(height_time): next i
       <<"call", "headers", 12>>,
       <<"lock", "hash_to_height_time">>,
       <<"unlock", "hash_to_height_time">>,
       <<"lock", "height_to_hash">>,
       <<"unlock", "height_to_hash">>,
       <<"branch", 2>>,
       <<"unlock", "height_to_hash">>,         \* 12
       <<"lock", "minutes_since_block">>,
       <<"unlock", "minutes_since_block">> >>

\* update_mempool_info, one round
UpdateMempoolInfoSteps ==
    << <<"call", "mempoolinfo", 0>>,
       <<"lock", "mempool_info">>,
       <<"unlock", "mempool_info">> >>

\* update_mempool_details, one round with one transaction
UpdateMempoolDetailsSteps ==
    << <<"call", "mempool", 8>>,
       <<"lock", "mempool_spending">>,
       <<"unlock", "mempool_spending">>,
       <<"lock", "mempool_spending">>,
       <<"unlock", "mempool_spending">>,
       <<"lock", "mempool_fees">>,
       <<"unlock", "mempool_fees">>,
       <<"lock", "mempool_fees">>,             \* 8
       <<"unlock", "mempool_fees">> >>

Steps(op) ==
    CASE op = "height_time" -> HeightTimeSteps
      [] op = "hash" -> HashSteps
      [] op = "blocks_from_heights" -> BlocksFromHeightsSteps
      [] op = "tx" -> TxSteps
      [] op = "preload_prevouts_inner" -> PreloadPrevoutsInnerSteps
      [] op = "home" -> HomeSteps
      [] op = "update_chain_info" -> UpdateChainInfoSteps
      [] op = "update_blocks_in_last_hour" -> UpdateBlocksInLastHourSteps
      [] op = "update_mempool_info" -> UpdateMempoolInfoSteps
      [] op = "update_mempool_details" -> UpdateMempoolDetailsSteps
      [] OTHER -> <<>>

\* the operations each task runs
OpsOf(t) ==
    CASE t = "request" -> {"home", "tx", "height_time", "hash", "blocks_from_heights", "preload_prevouts_inner"}
      [] t = "tip_tracker" -> {"update_blocks_in_last_hour", "update_chain_info"}
      [] t = "mempool_engine" -> {"update_mempool_info", "update_mempool_details", "preload_prevouts_inner"}

\* the task is inside an operation, at a step of it
Running(t) == task_op[t] # "idle" /\ task_pc[t] \in 1..Len(Steps(task_op[t]))

Step(t) == Steps(task_op[t])[task_pc[t]]

AtStep(t, kind) == Running(t) /\ Step(t)[1] = kind

\* tokio::sync::Mutex: the lock is free when no guard of it is alive
MutexFree(m) == \A t \in Tasks : \A i \in 1..Len(task_held[t]) : task_held[t][i] # m

\* the guards without the last guard of m
RECURSIVE DropGuard(_, _)
DropGuard(held, m) ==
    IF held = <<>> THEN <<>>
    ELSE IF held[Len(held)] = m THEN SubSeq(held, 1, Len(held) - 1)
    ELSE Append(DropGuard(SubSeq(held, 1, Len(held) - 1), m), held[Len(held)])

\* the task goes to step p; at step 0, or past the last step, the operation
\* has returned and its guards are dropped
GoTo(t, p) ==
    IF p = 0 \/ p > Len(Steps(task_op[t]))
    THEN /\ task_op' = [task_op EXCEPT ![t] = "idle"]
         /\ task_pc' = [task_pc EXCEPT ![t] = 0]
         /\ task_held' = [task_held EXCEPT ![t] = <<>>]
    ELSE /\ task_pc' = [task_pc EXCEPT ![t] = p]
         /\ UNCHANGED <<task_op, task_held>>

TaskUnchanged == UNCHANGED <<nodeVars, cacheVars, chainVars, bootVars, tipVars, mempoolVars, indexVars, mainVars, pageVars, preVars, hdrVars>>

\* a task enters an operation
TaskBegin ==
    /\ \E t \in Tasks : \E op \in OpsOf(t) :
        /\ task_op[t] = "idle"
        /\ task_op' = [task_op EXCEPT ![t] = op]
        /\ task_pc' = [task_pc EXCEPT ![t] = 1]
        /\ UNCHANGED task_held
    /\ TaskUnchanged

\* m.lock().await returns when the mutex is free
TaskLock ==
    /\ \E t \in Tasks :
        /\ AtStep(t, "lock")
        /\ MutexFree(Step(t)[2])
        /\ task_held' = [task_held EXCEPT ![t] = Append(@, Step(t)[2])]
        /\ task_pc' = [task_pc EXCEPT ![t] = @ + 1]
        /\ UNCHANGED task_op
    /\ TaskUnchanged

\* the guard is dropped
TaskUnlock ==
    /\ \E t \in Tasks :
        /\ AtStep(t, "unlock")
        /\ IF task_pc[t] = Len(Steps(task_op[t]))
           THEN GoTo(t, 0)
           ELSE /\ task_held' = [task_held EXCEPT ![t] = DropGuard(@, Step(t)[2])]
                /\ task_pc' = [task_pc EXCEPT ![t] = @ + 1]
                /\ UNCHANGED task_op
    /\ TaskUnchanged

\* the node answers the request the task awaits, or the request fails
TaskCall ==
    /\ \E t \in Tasks : \E ok \in BOOLEAN :
        /\ AtStep(t, "call")
        /\ GoTo(t, IF ok THEN task_pc[t] + 1 ELSE Step(t)[3])
    /\ TaskUnchanged

\* a condition of the code
TaskBranch ==
    /\ \E t \in Tasks : \E taken \in BOOLEAN :
        /\ AtStep(t, "branch")
        /\ GoTo(t, IF taken THEN Step(t)[2] ELSE task_pc[t] + 1)
    /\ TaskUnchanged

TaskReturn ==
    /\ \E t \in Tasks :
        /\ AtStep(t, "return")
        /\ GoTo(t, 0)
    /\ TaskUnchanged

NextTasks == TaskBegin \/ TaskLock \/ TaskUnlock \/ TaskCall \/ TaskBranch \/ TaskReturn

SpecTasks == Init /\ [][NextTasks]_vars

\* the documented order of the mutexes
LockOrder == <<"chain_info", "mempool_info", "mempool_fees", "tx_in_block", "txs", "hash_to_height_time", "height_to_hash">>

Rank(m) == CHOOSE i \in 1..Len(LockOrder) : LockOrder[i] = m

Ordered(m) == \E i \in 1..Len(LockOrder) : LockOrder[i] = m

\* the guards are held in the order of the list
HeldInOrder(held, order) ==
    \A i, j \in 1..Len(held) :
        i < j => \E a, b \in 1..Len(order) : a < b /\ order[a] = held[i] /\ order[b] = held[j]

\* C23: a task that holds more than one mutex took them in the order
\* chain_info, mempool_info, mempool_fees, tx_in_block, txs,
\* hash_to_height_time, height_to_hash
C23_LockOrder == \A t \in Tasks : HeldInOrder(task_held[t], LockOrder)

\* the order the operations do follow: txs before tx_in_block, and
\* height_to_hash before hash_to_height_time
LockOrderOfTheCode == <<"chain_info", "mempool_info", "mempool_fees", "txs", "tx_in_block", "height_to_hash", "hash_to_height_time">>

HeldInOrderOfTheCode == \A t \in Tasks : HeldInOrder(task_held[t], LockOrderOfTheCode)

\* update_cache holds txs and takes tx_in_block
TxInBlockTakenUnderTxs ==
    \E t \in Tasks : task_held[t] = <<"txs", "tx_in_block">>

\* C30: no task awaits a node request while it holds a mutex
C30_NoCallUnderMutex == \A t \in Tasks : AtStep(t, "call") => task_held[t] = <<>>

\* a request is awaited under height_to_hash only, and update_chain_info
\* awaits none under a mutex
CallUnderHeightToHashOnly ==
    \A t \in Tasks : AtStep(t, "call") =>
        /\ task_held[t] \in {<<>>, <<"height_to_hash">>}
        /\ task_op[t] = "update_chain_info" => task_held[t] = <<>>

\* update_blocks_in_last_hour waits for the mutex it holds
SelfDeadlock ==
    \E t \in Tasks : AtStep(t, "lock") /\ \E i \in 1..Len(task_held[t]) : task_held[t][i] = Step(t)[2]

(***************************************************************************)
(* preload_prevouts_inner step by step: the stream of the requests of one  *)
(* call, stream::iter(needed).map(call_raw).buffer_unordered(n).collect(), *)
(* and the calls of several callers that run at the same time              *)
(***************************************************************************)

\* args.fetch_parallelism
FetchParallelism == 1

\* the transactions whose page, or whose round of the engine, preloads: those
\* of more than one input
PreloadTxids == {txid \in MempoolTxids : Len(TxInput(txid)) > 1}

\* buffer_unordered(n) polls the next future of the stream while fewer than
\* n are in flight
BufferUnorderedPolls(in_flight, n) == Cardinality(in_flight) < n

PreloadUnchanged == UNCHANGED <<nodeVars, chainVars, bootVars, tipVars, mempoolVars, indexVars, mainVars, pageVars, taskVars, hdrVars>>

\* the call starts: `needed` is computed under the lock of txs
PreloadBegin ==
    /\ \E c \in Callers : \E txid \in PreloadTxids :
        /\ pre_pc[c] = "idle"
        /\ pre_pc' = [pre_pc EXCEPT ![c] = "fetch"]
        /\ pre_needed' = [pre_needed EXCEPT ![c] = Needed(txs, TxInput(txid))]
        /\ UNCHANGED <<pre_in_flight, pre_got>>
    /\ UNCHANGED cacheVars
    /\ PreloadUnchanged

\* the stream of the call sends the next request
PreloadPoll ==
    /\ \E c \in Callers :
        /\ pre_pc[c] = "fetch"
        /\ pre_needed[c] # <<>>
        /\ BufferUnorderedPolls(pre_in_flight[c], FetchParallelism)
        /\ pre_in_flight' = [pre_in_flight EXCEPT ![c] = @ \cup {Head(pre_needed[c])}]
        /\ pre_needed' = [pre_needed EXCEPT ![c] = Tail(@)]
        /\ UNCHANGED <<pre_pc, pre_got>>
    /\ UNCHANGED cacheVars
    /\ PreloadUnchanged

\* a request of the call completes: the node answers or fails; flatten()
\* keeps the answers
PreloadAnswer ==
    /\ \E c \in Callers : \E txid \in pre_in_flight[c] : \E ok \in BOOLEAN :
        /\ pre_in_flight' = [pre_in_flight EXCEPT ![c] = @ \ {txid}]
        /\ pre_got' = [pre_got EXCEPT ![c] = IF ok /\ NodeServesRaw(txid) THEN Append(@, txid) ELSE @]
        /\ UNCHANGED <<pre_pc, pre_needed>>
    /\ UNCHANGED cacheVars
    /\ PreloadUnchanged

\* the stream is over: the answers enter the cache and the call returns
PreloadInsert ==
    /\ \E c \in Callers :
        /\ pre_pc[c] = "fetch"
        /\ pre_needed[c] = <<>>
        /\ pre_in_flight[c] = {}
        /\ txs' = InsertGot([txs |-> txs, full |-> txs_full], pre_got[c], {}).txs
        /\ txs_full' = InsertGot([txs |-> txs, full |-> txs_full], pre_got[c], {}).full
        /\ pre_pc' = [pre_pc EXCEPT ![c] = "idle"]
        /\ pre_got' = [pre_got EXCEPT ![c] = <<>>]
        /\ UNCHANGED <<pre_needed, pre_in_flight>>
    /\ UNCHANGED tx_in_block
    /\ PreloadUnchanged

NextPreload == PreloadBegin \/ PreloadPoll \/ PreloadAnswer \/ PreloadInsert

InitPreload == EngineStart(MempoolTxids, Blocks, FALSE)

SpecPreload == InitPreload /\ [][NextPreload]_vars

RECURSIVE SumInFlight(_)
\* the requests in flight of the callers of the set
SumInFlight(callers) ==
    IF callers = {} THEN 0
    ELSE LET c == CHOOSE x \in callers : TRUE
         IN  Cardinality(pre_in_flight[c]) + SumInFlight(callers \ {c})

\* C25: at every instant the requests in flight of all the preload_prevouts
\* calls that run at the same time are at most fetch_parallelism
C25_GlobalFetchParallelism == SumInFlight(Callers) <= FetchParallelism

\* the requests in flight of each call are at most fetch_parallelism
FetchParallelismOfEachCall == \A c \in Callers : Cardinality(pre_in_flight[c]) <= FetchParallelism

\* every caller has a full window in flight
EveryWindowFull == \A c \in Callers : Cardinality(pre_in_flight[c]) = FetchParallelism

(***************************************************************************)
(* update_blocks_in_last_hour: what it publishes                           *)
(***************************************************************************)
\* the six heights tip, tip-1, .., tip-5 have an entry of the height map
\* that is not all_zeros and that the (id -> height,time) map resolves
SixHeightsResolve ==
    /\ current.blocks >= LastBlocks - 1
    /\ \A i \in 0..(LastBlocks - 1) :
        /\ current.blocks - i < height_to_hash_len
        /\ height_to_hash[current.blocks - i] # AllZeros
        /\ height_to_hash[current.blocks - i] \in DOMAIN hash_to_height_time

\* C31: the minutes-since-block update completes for every tip height, and
\* publishes six elements exactly when the six heights resolve, blank
\* otherwise (also for a tip below 5).
C31_MinutesSinceBlock ==
    [][UpdateBlocksInLastHour => (tip_pc' = "sleep" /\ minutes_since_block' = SixHeightsResolve)]_vars

\* when the update completes, it publishes six elements exactly when the
\* six heights resolve
MinutesSinceBlockWhenCompleted ==
    [][UpdateBlocksInLastHour => (tip_pc' = "sleep" => minutes_since_block' = SixHeightsResolve)]_vars

\* the update of a tip below 5 ended the task
LowTipEndsTheTask == tip_pc = "dead" /\ current.blocks < LastBlocks - 1

(***************************************************************************)
(* index_block: what the result of a block holds                           *)
(***************************************************************************)
\* the transactions of a block
TxsOfBlock(block) == {Txdata(block)[i] : i \in 1..Len(Txdata(block))}

\* the outpoints that the inputs of the transactions of the set consume
InputsOf(txids) == UNION {BlockTxInput(txid) : txid \in txids}

\* the fingerprints of the scripts of all the outputs of a block
FundingOfBlock(block) == {ScriptHash(s) : s \in UNION {BlockTxOutputScripts(txid) : txid \in TxsOfBlock(block)}}

\* C32: the index result of a block has no spending record for a coinbase
\* input: its spending set is the set of the outpoints that the inputs of
\* the non-coinbase transactions consume, its funding set is the set of the
\* fingerprints of the scripts of all the outputs.
C32_NoCoinbaseSpending ==
    \A index_res \in idx_spawned :
        /\ NullOutPoint \notin index_res.spending_sh
        /\ index_res.spending_sh = InputsOf(TxsOfBlock(index_res.block_hash) \ {Coinbase(index_res.block_hash)})
        /\ index_res.funding_sh = FundingOfBlock(index_res.block_hash)

\* the spending set is the set of the outpoints of the inputs of all the
\* transactions, the coinbase included
SpendingOfAllInputs ==
    \A index_res \in idx_spawned :
        /\ index_res.spending_sh = InputsOf(TxsOfBlock(index_res.block_hash))
        /\ index_res.funding_sh = FundingOfBlock(index_res.block_hash)

\* the null outpoint of a coinbase is in the spending keyspace
NullOutPointRecorded == \E rec \in spending : rec[1] = OutpointToKey(NullOutPoint)

(***************************************************************************)
(* index_addresses: the order of the catch-up                              *)
(***************************************************************************)
\* the block of the height map at the height of the loop is in one of the
\* two sets of the indexed blocks
AlreadyIndexed ==
    /\ idx_pc = "loop"
    /\ HeightToHashGet(height_to_hash, height_to_hash_len, idx_height) # <<>>
    /\ HeightToHashGet(height_to_hash, height_to_hash_len, idx_height)[1] \in idx_indexed_block_hash \cup indexed

\* the block of the round was fetched: its result is spawned for the write
FetchedNow ==
    /\ idx_pc = "fetch"
    /\ IndexBlock(idx_block_hash, idx_height) \in idx_spawned'

\* C33: the catch-up goes through the heights in ascending order, one by
\* one; it leaves the height h only when the block at h was already indexed
\* or has just been fetched; a fetch that fails is made again for the same
\* block at the same height.
C33_CatchUpInOrder ==
    [][/\ (idx_pc # "start" /\ idx_height' # idx_height) =>
            (idx_height' = idx_height + 1 /\ (AlreadyIndexed \/ FetchedNow))
       /\ (idx_pc = "fetch" /\ ~FetchedNow) =>
            (idx_pc' = "fetch" /\ idx_height' = idx_height /\ idx_block_hash' = idx_block_hash)]_vars

\* the loop is past a height whose block it fetched
C33_Witness ==
    /\ idx_pc = "loop"
    /\ idx_height >= 1
    /\ \E index_res \in idx_spawned : index_res.height = idx_height - 1

(***************************************************************************)
(* bootstrap_state: the header phase, one request of headers at a time,    *)
(* against a chain of one branch whose tip has the height hdr_tip          *)
(***************************************************************************)
\* the tallest chain of the header phase
MaxTip == 210

\* HEADERS_PER_REQUEST
HeadersPerRequest == 101

\* a loop whose requests do not overlap
HeadersStep_NoOverlap == HeadersPerRequest

\* (0usize..).step_by(HEADERS_PER_REQUEST - 1)
HeadersStep == HeadersPerRequest - 1

\* the id of the header at height h of the chain
HeaderHash(h) == <<1, h>>

\* rpc::headers::call_many(hash, count) on a chain of tip height tip: the
\* headers from the one of `hash` upward, at most count
CallMany(tip, hash, count) ==
    [k \in 1..(IF tip - HeightOf(hash) + 1 < count THEN tip - HeightOf(hash) + 1 ELSE count) |-> HeaderHash(HeightOf(hash) + k - 1)]

\* for (j, header) in headers.iter().enumerate(): the inserts of
\* (hash, HeightTime {height: i + j, time}); the last insert of a hash is the
\* one that stays
InsertHeaders(map, headers, i) ==
    LET hashes == {headers[n] : n \in 1..Len(headers)}
        last(k) == CHOOSE n \in 1..Len(headers) : headers[n] = k /\ \A m \in 1..Len(headers) : headers[m] = k => m <= n
    IN  [k \in DOMAIN map \cup hashes |->
            IF k \in hashes THEN [height |-> i + last(k) - 1, time |-> TimeOf(k)] ELSE map[k]]

\* SharedState::add_height_hash(v.height, k) for every (k, v) of the map:
\* the height map holds at each height a hash that the map gives that
\* height, all_zeros where there is none
AddHeightHashOfMap(map) ==
    LET heights == {map[k].height : k \in DOMAIN map}
        top == CHOOSE h \in heights : \A g \in heights : g <= h
    IN  [h \in 0..top |-> IF h \in heights THEN CHOOSE k \in DOMAIN map : map[k].height = h ELSE AllZeros]

HeadersUnchanged == UNCHANGED <<nodeVars, cacheVars, chainVars, bootVars, tipVars, mempoolVars, indexVars, mainVars, pageVars, taskVars, preVars>>

\* bootstrap_state starts against a chain
HeadersStart ==
    /\ hdr_pc = "off"
    /\ \E tip \in 0..MaxTip : hdr_tip' = tip
    /\ hdr_pc' = "headers"
    /\ UNCHANGED <<hdr_i, hdr_hash, hdr_map, hdr_vec, hdr_batches>>
    /\ HeadersUnchanged

\* one round of the for loop: call_many, the inserts, the test of the length
HeadersBatch ==
    /\ hdr_pc = "headers"
    /\ \E ok \in BOOLEAN :
        IF ok
        THEN LET headers == CallMany(hdr_tip, hdr_hash, HeadersPerRequest)
             IN  /\ hdr_map' = InsertHeaders(hdr_map, headers, hdr_i)
                 /\ hdr_hash' = IF headers = <<>> THEN hdr_hash ELSE headers[Len(headers)]
                 /\ hdr_batches' = Append(hdr_batches, [i |-> hdr_i, len |-> Len(headers)])
                 /\ IF Len(headers) # HeadersPerRequest
                    THEN hdr_pc' = "record" /\ UNCHANGED hdr_i
                    ELSE hdr_i' = hdr_i + HeadersStep /\ UNCHANGED hdr_pc
        ELSE /\ hdr_pc' = "failed"
             /\ UNCHANGED <<hdr_i, hdr_hash, hdr_map, hdr_batches>>
    /\ UNCHANGED <<hdr_tip, hdr_vec>>
    /\ HeadersUnchanged

\* add_height_hash for every entry, then bootstrap_hash_to_height_time
HeadersRecord ==
    /\ hdr_pc = "record"
    /\ hdr_vec' = AddHeightHashOfMap(hdr_map)
    /\ hdr_pc' = "done"
    /\ UNCHANGED <<hdr_tip, hdr_i, hdr_hash, hdr_map, hdr_batches>>
    /\ HeadersUnchanged

NextHeaders == HeadersStart \/ HeadersBatch \/ HeadersRecord

SpecHeaders == Init /\ [][NextHeaders]_vars

\* C34: after a successful header phase against a chain of tip height T,
\* every height of 0..T has exactly one recorded header: the height map
\* holds the block of the chain at h, the (id -> height,time) map gives it
\* the height h and its time; consecutive batches overlap in one header with
\* the same height in both; the phase stops at the first batch of fewer
\* than 101 headers.
C34_HeaderPhase ==
    hdr_pc = "done" =>
        /\ DOMAIN hdr_vec = 0..hdr_tip
        /\ DOMAIN hdr_map = {HeaderHash(h) : h \in 0..hdr_tip}
        /\ \A h \in 0..hdr_tip :
            /\ hdr_vec[h] = HeaderHash(h)
            /\ hdr_map[HeaderHash(h)] = [height |-> h, time |-> TimeOf(HeaderHash(h))]
        /\ \A k \in 1..(Len(hdr_batches) - 1) :
            /\ hdr_batches[k].len = HeadersPerRequest
            /\ hdr_batches[k].i + hdr_batches[k].len - 1 = hdr_batches[k + 1].i
        /\ hdr_batches[Len(hdr_batches)].len < HeadersPerRequest

\* the phase of a chain whose tip height is a multiple of 100 took three
\* requests, the last of one header
C34_Witness ==
    /\ hdr_pc = "done"
    /\ hdr_tip = 200
    /\ Len(hdr_batches) = 3
    /\ hdr_batches[3].len = 1

(***************************************************************************)
(* route.rs, Resource::Block: the confirmations of the block of the page   *)
(* and the max-age of its answer                                           *)
(***************************************************************************)
\* a - b on u32: the difference; below zero the panic of a build with
\* overflow checks, or the wrapped value 2^32 + a - b as two 16-bit limbs
U32Sub(a, b) ==
    IF a >= b THEN {[kind |-> "value", limbs |-> <<0, a - b>>]}
    ELSE {[kind |-> "panic", limbs |-> <<>>], [kind |-> "value", limbs |-> <<65535, 65536 + a - b>>]}

\* cache_time_from_confirmations(Some(confirmations))
CacheTimeFromConfirmations(limbs) ==
    IF limbs = <<0, 0>> THEN 60
    ELSE IF limbs = <<0, 1>> THEN 60 * 5
    ELSE IF limbs = <<0, 2>> THEN 60 * 30
    ELSE IF limbs = <<0, 3>> THEN 60 * 180
    ELSE 60 * 60 * 24 * 30

\* the page of a block that the node serves: rpc::block::call_json, the page,
\* the clone of chain_info, current_tip.blocks - block.height
BlockConfirmations ==
    /\ page_req = <<>>
    /\ \E block_hash \in ChainOf(node_tip) : \E ok \in BOOLEAN :
        /\ page_req' = <<[call |-> "block", block_hash |-> block_hash, tip |-> chain_info.blocks]>>
        /\ IF ok
           THEN \E r \in U32Sub(chain_info.blocks, HeightOf(block_hash)) :
                    page_res' = <<[ok |-> r.kind = "value", confirmations |-> r.limbs,
                                   cache_seconds |-> IF r.kind = "value" THEN CacheTimeFromConfirmations(r.limbs) ELSE 0]>>
           ELSE page_res' = <<[ok |-> FALSE, confirmations |-> <<>>, cache_seconds |-> 0]>>
    /\ UNCHANGED <<nodeVars, cacheVars, chainVars, bootVars, tipVars, mempoolVars, indexVars, mainVars, concVars>>

\* blocks_from_heights(&[height]) of the output page: the entry of the height
\* map, when there is one, is asked to the node as it is
BlocksFromHeights ==
    /\ page_req = <<>>
    /\ \E height \in 0..(MaxHeight + 1) :
        LET entry == HeightToHashGet(height_to_hash, height_to_hash_len, height)
        IN  /\ page_req' = <<[call |-> "blocks_from_heights", height |-> height]>>
            /\ page_res' = <<[ok |-> entry = <<>> \/ entry[1] \in ChainOf(node_tip), requested |-> entry]>>
    /\ UNCHANGED <<nodeVars, cacheVars, chainVars, bootVars, tipVars, mempoolVars, indexVars, mainVars, concVars>>

NextConfirmations ==
    \/ NodeSetTip
    \/ UpdateBlocksInLastHour
    \/ Poll
    \/ WalkStep
    \/ Publish
    \/ BlockConfirmations
    \/ BlocksFromHeights

InitConfirmations == EngineStart(MempoolTxids, Blocks, FALSE)

\* the pages beside the tip tracker, on a node that changes its tip
SpecConfirmations == InitConfirmations /\ [][NextConfirmations]_vars

BlockRecorded == page_req # <<>> /\ page_req[1].call = "block"

\* C35: the confirmation count of a page, the height of the tip snapshot
\* minus the height of the block, is never negative and never wraps: the
\* height of the block is at most the height of the recorded tip.
C35_ConfirmationsNeverWrap ==
    BlockRecorded =>
        /\ HeightOf(page_req[1].block_hash) <= page_req[1].tip
        /\ page_res[1].confirmations # <<>> => page_res[1].confirmations[1] = 0

\* a count that was computed for a block at or below the recorded tip is
\* the difference of the heights
ConfirmationsBelowTip ==
    (BlockRecorded /\ HeightOf(page_req[1].block_hash) <= page_req[1].tip /\ page_res[1].confirmations # <<>>) =>
        page_res[1].confirmations = <<0, page_req[1].tip - HeightOf(page_req[1].block_hash)>>

\* the page of a block above the recorded tip was answered with a month
WrappedConfirmations ==
    /\ BlockRecorded
    /\ page_res[1].ok
    /\ page_res[1].confirmations[1] = 65535
    /\ page_res[1].cache_seconds = 60 * 60 * 24 * 30

(***************************************************************************)
(* update_mempool_details: the projection of a cycle                       *)
(***************************************************************************)
\* an Option of the projection is None or an element of the rate index
InRates(option) == option = <<>> \/ option[1] \in rates

\* the projection that the cycle publishes comes from the rate index of
\* the cycle
ProjectionOfTheCycle ==
    /\ mempool_fees'.highest = Last(rates)
    /\ InRates(mempool_fees'.highest)
    /\ BlockTemplateLast(rates) # <<>> =>
        /\ InRates(mempool_fees'.last_in_block) /\ mempool_fees'.last_in_block # <<>>
        /\ InRates(mempool_fees'.middle_in_block) /\ mempool_fees'.middle_in_block # <<>>
        /\ mempool_fees'.transactions = <<TakeWhileCount(IterRev(rates), 1, 0)>>

\* C36: after every detail cycle highest, last_in_block and middle_in_block,
\* when present, are transactions of the rate index of the cycle and
\* `transactions` is the size of the selected prefix; when the rate index
\* is empty or no transaction fits, last_in_block, middle_in_block and
\* transactions are absent.
C36_ProjectionFromRates ==
    [][MempoolTemplate =>
        /\ ProjectionOfTheCycle
        /\ InRates(mempool_fees'.last_in_block)
        /\ InRates(mempool_fees'.middle_in_block)
        /\ BlockTemplateLast(rates) = <<>> =>
            (mempool_fees'.last_in_block = <<>> /\ mempool_fees'.middle_in_block = <<>> /\ mempool_fees'.transactions = <<>>)]_vars

\* the same without the case of an empty selection: then the three fields
\* are the ones of the cycle before
ProjectionOrLeftOver ==
    [][MempoolTemplate =>
        /\ ProjectionOfTheCycle
        /\ BlockTemplateLast(rates) = <<>> =>
            (/\ mempool_fees'.last_in_block = mempool_fees.last_in_block
             /\ mempool_fees'.middle_in_block = mempool_fees.middle_in_block
             /\ mempool_fees'.transactions = mempool_fees.transactions)]_vars

\* the rate index is empty and the projection names a transaction
LeftOverProjection ==
    /\ mp_pc = "content"
    /\ rates = {}
    /\ mempool_fees.highest = <<>>
    /\ mempool_fees.last_in_block # <<>>
    /\ mempool_fees.transactions # <<>>

(***************************************************************************)
(* The block requests and the all_zeros block id                           *)
(***************************************************************************)
\* C37: no block request is ever issued to the node for the all_zeros
\* block id: the round of the backward walk, which starts with
\* rpc::block::call(last_block_hash), never runs with all_zeros.
C37_NoRequestForAllZeros == [][WalkStep => last_block_hash # AllZeros]_vars

\* the walk asks for all_zeros only below genesis, after last_height has
\* wrapped
AllZerosOnlyBelowGenesis == [][WalkStep => (last_block_hash = AllZeros => last_height = 0 - 1)]_vars

\* the walk is about to ask the node for all_zeros
WalkAsksAllZeros == tip_pc = "walk" /\ last_block_hash = AllZeros

\* blocks_from_heights asks the node for the entry of the height map also
\* when the entry is all_zeros
BlocksFromHeightsNoSentinel ==
    (page_req # <<>> /\ page_req[1].call = "blocks_from_heights") => page_res[1].requested # <<AllZeros>>

(***************************************************************************)
(* The tasks that wait for the mutexes                                     *)
(***************************************************************************)
\* the task t waits for a mutex of which the task u holds the guard
WaitsFor(t, u) == AtStep(t, "lock") /\ \E i \in 1..Len(task_held[u]) : task_held[u][i] = Step(t)[2]

\* tasks that wait for one another in a cycle
CyclicWait ==
    \/ \E t \in Tasks : WaitsFor(t, t)
    \/ \E t, u \in Tasks : t # u /\ WaitsFor(t, u) /\ WaitsFor(u, t)
    \/ \E t, u, v \in Tasks : t # u /\ u # v /\ v # t /\ WaitsFor(t, u) /\ WaitsFor(u, v) /\ WaitsFor(v, t)

\* C38: no task waits for a mutex that it already holds, and no set of
\* tasks waits cyclically on the mutexes; the minutes-since-block update,
\* which holds height_to_hash while it calls height_time, is never stuck.
C38_NoWaitOnOwnMutex == ~CyclicWait

\* different tasks never wait for one another in a cycle
NoCycleOfSeveralTasks ==
    /\ \A t, u \in Tasks : t # u => ~(WaitsFor(t, u) /\ WaitsFor(u, t))
    /\ \A t, u, v \in Tasks : (t # u /\ u # v /\ v # t) => ~(WaitsFor(t, u) /\ WaitsFor(u, v) /\ WaitsFor(v, t))

\* only update_blocks_in_last_hour waits for its own mutex, after
\* height_time missed the map
OnlyLastHourWaitsForItself ==
    \A t \in Tasks : WaitsFor(t, t) => (task_op[t] = "update_blocks_in_last_hour" /\ task_pc[t] = 9)


(***************************************************************************)
(* The tx->block cache across a reorg                                      *)
(***************************************************************************)
\* the explorer started with a tx->block cache that holds one entry more
\* than the coinbase of an ingested block
InitReorg == SharedStateNew /\ StartedWith(FALSE, TxidBlockhashLen + 1)

\* the bootstrap and the tip tracker on a node whose best chain changes
SpecReorg == InitReorg /\ [][Next]_vars

\* the blocks that the entries of the tx->block cache name
BlocksOfTxInBlock == {tx_in_block[i][2] : i \in 1..Len(tx_in_block)}

\* the blocks of the chain observed before the walk that the new tip replaced
ReplacedBlocks == ChainOf(walk_from.best_block_hash) \ ChainOf(last_tip.best_block_hash)

\* the tip tracker has just published a tip that replaced blocks
ReorgCompleted == IngestionCompleted /\ ReplacedBlocks # {}

\* SharedState::tx(txid, true) on a hit of both caches: the block of the
\* tx->block entry, <<>> for None
TxBlockHashOnHit(txid) ==
    IF \E i \in 1..Len(tx_in_block) : tx_in_block[i][1] = TruncTxid(txid)
    THEN <<(CHOOSE e \in Range(tx_in_block) : e[1] = TruncTxid(txid))[2]>>
    ELSE <<>>

\* C39: after the tip tracker completes the ingestion of a reorg, no entry
\* of the tx->block cache maps a transaction to a block that is no longer
\* on the best chain.
C39_NoStaleBlockAfterReorg ==
    ReorgCompleted => BlocksOfTxInBlock \subseteq ChainOf(chain_info.best_block_hash)

\* what holds instead: every entry names the block that confirms the
\* transaction on some branch, replaced or not
EntriesNameAConfirmingBlock ==
    \A i \in 1..Len(tx_in_block) :
        /\ tx_in_block[i][2] \in Blocks
        /\ \E j \in 1..Len(Txdata(tx_in_block[i][2])) : TruncTxid(Txdata(tx_in_block[i][2])[j]) = tx_in_block[i][1]

\* after the reorg from <<1, 1>> to branch 2, tx(2, true) still reports the
\* transaction 2 as contained in the replaced block <<1, 1>>
StaleTxInBlock ==
    /\ ReorgCompleted
    /\ boot_pc = "done"
    /\ <<1, 1>> \in ReplacedBlocks
    /\ \A blk \in ChainOf(chain_info.best_block_hash) : \A j \in 1..Len(Txdata(blk)) : Txdata(blk)[j] # 2
    /\ TxBlockHashOnHit(2) = <<<<1, 1>>>>

====
